---- MODULE Spec2Model ----
(***************************************************************************)
(* pip-package-readme-mcp-server.                                          *)
(*                                                                         *)
(*   Spec         ReadmeService and its three collaborators                *)
(*                ReadmeContentCleaner, ExampleExtractor, ExampleProcessor *)
(*                on one text.                                             *)
(*   SpecCache    MemoryCache: set, get, has, delete, clear and the clock. *)
(*   SpecPackage  PackageReadmeService.getPackageReadme over the cache     *)
(*                singleton and the PyPI client.                           *)
(*   SpecRetry    withRetry around an operation that fails or succeeds.    *)
(*                                                                         *)
(* A JavaScript string is a sequence of one-character strings.  The        *)
(* regular expressions of the source are written out as the scans they     *)
(* perform (leftmost match, greedy quantifiers, global replacement).       *)
(***************************************************************************)
EXTENDS Integers, Sequences, FiniteSets, TLC

VARIABLES text, cleaned, recleaned, examples, sortInput, sorted, pc

\* A MemoryCache: the Map of entries, Date.now(), the two constructor
\* fields, and what the last call returned.
VARIABLES store, clock, maxSize, defaultTtl, ret

\* What the callers of the cache did, kept to state what they may expect:
\* the last set of each key and the keys from least to most recently used.
\* The cache itself keeps no such record.
VARIABLES trail

\* The requests the PyPI client has received.
VARIABLES pypiLog

\* One run of withRetry.
VARIABLES retry

readmeVars == <<text, cleaned, recleaned, examples, sortInput, sorted, pc>>

cacheVars == <<store, clock, maxSize, defaultTtl, ret, trail>>

vars == <<text, cleaned, recleaned, examples, sortInput, sorted, pc,
          store, clock, maxSize, defaultTtl, ret, trail, pypiLog, retry>>

\* The parts of the state a specification does not use stay as they are here.
ReadmeIdle ==
    /\ text = <<>> /\ cleaned = <<>> /\ recleaned = <<>> /\ examples = <<>>
    /\ sortInput = <<>> /\ sorted = <<>> /\ pc = {}

CacheIdle ==
    /\ store = <<>> /\ clock = 0 /\ maxSize = 0 /\ defaultTtl = 0 /\ ret = <<>>
    /\ trail = <<>>

PackageIdle == pypiLog = <<>>

RetryIdle == retry = <<>>

----------------------------------------------------------------------------
(* Characters.                                                             *)

\* The grave accent cannot be written inside a string literal of this
\* language, so the character is named.
Backtick == "<backtick>"

\* What \s of a JavaScript regular expression and String.prototype.trim
\* treat as white space (the characters of it that the inputs can hold).
WhiteSpace == {" ", "\t", "\n", "\r", "\f"}

\* Where $ and ^ match under the m flag.
LineTerminators == {"\n", "\r"}

LowerAlpha == <<"a","b","c","d","e","f","g","h","i","j","k","l","m",
                "n","o","p","q","r","s","t","u","v","w","x","y","z">>

UpperAlpha == <<"A","B","C","D","E","F","G","H","I","J","K","L","M",
                "N","O","P","Q","R","S","T","U","V","W","X","Y","Z">>

Digits == {"0","1","2","3","4","5","6","7","8","9"}

LowerSet == {LowerAlpha[i] : i \in 1..26}

UpperSet == {UpperAlpha[i] : i \in 1..26}

\* \w of a regular expression.
WordChars == LowerSet \cup UpperSet \cup Digits \cup {"_"}

LowerOf == [c \in UpperSet |-> LowerAlpha[CHOOSE i \in 1..26 : UpperAlpha[i] = c]]

UpperOf == [c \in LowerSet |-> UpperAlpha[CHOOSE i \in 1..26 : LowerAlpha[i] = c]]

toLowerChar(c) == IF c \in UpperSet THEN LowerOf[c] ELSE c

toUpperChar(c) == IF c \in LowerSet THEN UpperOf[c] ELSE c

----------------------------------------------------------------------------
(* String primitives.                                                      *)

\* The index after the longest run of characters of class C that starts at i.
RunEnd(s, i, C) ==
    IF i > Len(s) THEN i
    ELSE CHOOSE j \in i..(Len(s) + 1) :
             /\ j > Len(s) \/ s[j] \notin C
             /\ \A k \in i..(j - 1) : s[k] \in C

\* The index before the longest run of characters of class C that ends at i.
RunStart(s, i, C) ==
    IF i < 1 THEN i
    ELSE CHOOSE j \in 0..i :
             /\ j < 1 \/ s[j] \notin C
             /\ \A k \in (j + 1)..i : s[k] \in C

\* k occurs in s at index i.
StartsWithAt(s, i, k) ==
    /\ i >= 1
    /\ i + Len(k) - 1 <= Len(s)
    /\ \A j \in 1..Len(k) : s[i + j - 1] = k[j]

startsWith(s, k) == StartsWithAt(s, 1, k)

includes(s, k) == \E i \in 1..(Len(s) - Len(k) + 1) : StartsWithAt(s, i, k)

\* The first index >= i where k occurs in s, 0 when there is none.
IndexOfFrom(s, k, i) ==
    IF \E j \in i..Len(s) : StartsWithAt(s, j, k)
    THEN CHOOSE j \in i..Len(s) :
             /\ StartsWithAt(s, j, k)
             /\ \A h \in i..(j - 1) : ~StartsWithAt(s, h, k)
    ELSE 0

\* The rest of s from index i.
From(s, i) == SubSeq(s, i, Len(s))

trim(s) ==
    LET a == RunEnd(s, 1, WhiteSpace)
        b == RunStart(s, Len(s), WhiteSpace)
    IN  IF a > b THEN <<>> ELSE SubSeq(s, a, b)

toLowerCase(s) == SubSeq([i \in 1..Len(s) |-> toLowerChar(s[i])], 1, Len(s))

\* s.split(sep) for a one-character separator: the pieces between the
\* separators, empty pieces included.
RECURSIVE SplitFrom(_, _, _)
SplitFrom(s, sep, i) ==
    LET j == IndexOfFrom(s, <<sep>>, i)
    IN  IF j = 0 THEN <<From(s, i)>>
        ELSE <<SubSeq(s, i, j - 1)>> \o SplitFrom(s, sep, j + 1)

split(s, sep) == SplitFrom(s, sep, 1)

\* pieces.join(sep)
RECURSIVE JoinFrom(_, _, _)
JoinFrom(pieces, sep, i) ==
    IF i > Len(pieces) THEN <<>>
    ELSE IF i = Len(pieces) THEN pieces[i]
    ELSE pieces[i] \o sep \o JoinFrom(pieces, sep, i + 1)

join(pieces, sep) == JoinFrom(pieces, sep, 1)

\* The first index >= i of s that holds a character of class C, 0 when
\* there is none.
IndexOfClassFrom(s, C, i) ==
    IF \E j \in i..Len(s) : s[j] \in C
    THEN CHOOSE j \in i..Len(s) : s[j] \in C /\ \A h \in i..(j - 1) : s[h] \notin C
    ELSE 0

\* replace(/\s+/g, ' '): every run of white space becomes one space.
RECURSIVE CollapseWhiteSpace(_, _)
CollapseWhiteSpace(s, i) ==
    LET j == IndexOfClassFrom(s, WhiteSpace, i)
    IN  IF j = 0 THEN From(s, i)
        ELSE SubSeq(s, i, j - 1) \o <<" ">> \o CollapseWhiteSpace(s, RunEnd(s, j, WhiteSpace))

----------------------------------------------------------------------------
(* ReadmeContentCleaner                                                    *)
(*                                                                         *)
(* Each global replacement is a loop over its matches: XxxMatchEnd(s, j)   *)
(* is the index after the match that starts at j (0 when no match starts   *)
(* there), and the loop copies the text up to the leftmost match, writes   *)
(* the replacement and resumes after the match.                            *)

\* /\n{3,}/
NewlinesMatchEnd(s, j) ==
    LET e == RunEnd(s, j, {"\n"}) IN IF e - j >= 3 THEN e ELSE 0

RECURSIVE CollapseNewlines(_, _)
CollapseNewlines(s, i) ==
    IF \E j \in i..Len(s) : NewlinesMatchEnd(s, j) > 0
    THEN LET j == CHOOSE j \in i..Len(s) :
                      /\ NewlinesMatchEnd(s, j) > 0
                      /\ \A h \in i..(j - 1) : NewlinesMatchEnd(s, h) = 0
         IN  SubSeq(s, i, j - 1) \o <<"\n", "\n">>
                \o CollapseNewlines(s, NewlinesMatchEnd(s, j))
    ELSE From(s, i)

\* The position i of s is the end of a line ($ under the m flag).
AtLineEnd(s, i) == i > Len(s) \/ s[i] \in LineTerminators

\* The position i of s is the start of a line (^ under the m flag).
AtLineStart(s, i) == i = 1 \/ s[i - 1] \in LineTerminators

\* /[ \t]+$/m : a run of blanks that reaches the end of its line.
BlanksMatchEnd(s, j) ==
    LET e == RunEnd(s, j, {" ", "\t"}) IN IF e > j /\ AtLineEnd(s, e) THEN e ELSE 0

RECURSIVE StripTrailingBlanks(_, _)
StripTrailingBlanks(s, i) ==
    IF \E j \in i..Len(s) : BlanksMatchEnd(s, j) > 0
    THEN LET j == CHOOSE j \in i..Len(s) :
                      /\ BlanksMatchEnd(s, j) > 0
                      /\ \A h \in i..(j - 1) : BlanksMatchEnd(s, h) = 0
         IN  SubSeq(s, i, j - 1) \o StripTrailingBlanks(s, BlanksMatchEnd(s, j))
    ELSE From(s, i)

\* replace(/\r\n/g, '\n')
RECURSIVE NormalizeLineEndings(_, _)
NormalizeLineEndings(s, i) ==
    LET j == IndexOfFrom(s, <<"\r", "\n">>, i)
    IN  IF j = 0 THEN From(s, i)
        ELSE SubSeq(s, i, j - 1) \o <<"\n">> \o NormalizeLineEndings(s, j + 2)

CommentOpen == <<"<","!","-","-">>

CommentClose == <<"-","-",">">>

\* The comment pattern, lazy: from an opening marker to the first closing
\* marker that starts after it.
CommentMatchEnd(s, j) ==
    LET close == IF StartsWithAt(s, j, CommentOpen)
                 THEN IndexOfFrom(s, CommentClose, j + Len(CommentOpen))
                 ELSE 0
    IN  IF close > 0 THEN close + Len(CommentClose) ELSE 0

RECURSIVE RemoveHtmlComments(_, _)
RemoveHtmlComments(s, i) ==
    IF \E j \in i..Len(s) : CommentMatchEnd(s, j) > 0
    THEN LET j == CHOOSE j \in i..Len(s) :
                      /\ CommentMatchEnd(s, j) > 0
                      /\ \A h \in i..(j - 1) : CommentMatchEnd(s, h) = 0
         IN  SubSeq(s, i, j - 1) \o RemoveHtmlComments(s, CommentMatchEnd(s, j))
    ELSE From(s, i)

RuleChars == {"-", "*", "_"}

\* The horizontal-rule pattern under the m flag: at the start of a line,
\* white space (line breaks included), three or more rule characters, white
\* space, the end of a line.  The trailing white space is greedy, so the
\* match ends at the last end of line it can reach.
RuleMatchEnd(s, j) ==
    LET a == RunEnd(s, j, WhiteSpace)
        b == RunEnd(s, a, RuleChars)
        c == RunEnd(s, b, WhiteSpace)
        ends == {e \in b..c : AtLineEnd(s, e)}
    IN  IF AtLineStart(s, j) /\ b - a >= 3 /\ ends # {}
        THEN CHOOSE e \in ends : \A f \in ends : f <= e
        ELSE 0

RECURSIVE ReplaceHorizontalRules(_, _)
ReplaceHorizontalRules(s, i) ==
    IF \E j \in i..Len(s) : RuleMatchEnd(s, j) > 0
    THEN LET j == CHOOSE j \in i..Len(s) :
                      /\ RuleMatchEnd(s, j) > 0
                      /\ \A h \in i..(j - 1) : RuleMatchEnd(s, h) = 0
         IN  SubSeq(s, i, j - 1) \o <<"-","-","-">>
                \o ReplaceHorizontalRules(s, RuleMatchEnd(s, j))
    ELSE From(s, i)

TableChars == WhiteSpace \cup {"-", ":", "|"}

\* The table-separator pattern: a bar, one or more of white space, '-', ':'
\* and '|', a bar.  The class holds the bar and is greedy, so the last bar
\* of the run closes the match.
TableMatchEnd(s, j) ==
    LET r == RunEnd(s, j + 1, TableChars)
        bars == {b \in (j + 2)..(r - 1) : s[b] = "|"}
    IN  IF s[j] = "|" /\ bars # {}
        THEN (CHOOSE b \in bars : \A c \in bars : c <= b) + 1
        ELSE 0

\* Inside each match every run of white space becomes one space.
RECURSIVE CleanTableFormatting(_, _)
CleanTableFormatting(s, i) ==
    IF \E j \in i..Len(s) : TableMatchEnd(s, j) > 0
    THEN LET j == CHOOSE j \in i..Len(s) :
                      /\ TableMatchEnd(s, j) > 0
                      /\ \A h \in i..(j - 1) : TableMatchEnd(s, h) = 0
         IN  SubSeq(s, i, j - 1)
                \o CollapseWhiteSpace(SubSeq(s, j, TableMatchEnd(s, j) - 1), 1)
                \o CleanTableFormatting(s, TableMatchEnd(s, j))
    ELSE From(s, i)

\* The empty-link pattern: '[', the text up to the first ']', '(', white
\* space, ')'.
LinkMatchEnd(s, j) ==
    LET q == IF s[j] = "[" THEN IndexOfFrom(s, <<"]">>, j + 1) ELSE 0
        w == RunEnd(s, q + 2, WhiteSpace)
    IN  IF q > 0 /\ StartsWithAt(s, q + 1, <<"(">>) /\ StartsWithAt(s, w, <<")">>)
        THEN w + 1
        ELSE 0

\* The match becomes its link text.
RECURSIVE RemoveEmptyLinks(_, _)
RemoveEmptyLinks(s, i) ==
    IF \E j \in i..Len(s) : LinkMatchEnd(s, j) > 0
    THEN LET j == CHOOSE j \in i..Len(s) :
                      /\ LinkMatchEnd(s, j) > 0
                      /\ \A h \in i..(j - 1) : LinkMatchEnd(s, h) = 0
         IN  SubSeq(s, i, j - 1)
                \o SubSeq(s, j + 1, IndexOfFrom(s, <<"]">>, j + 1) - 1)
                \o RemoveEmptyLinks(s, LinkMatchEnd(s, j))
    ELSE From(s, i)

cleanMarkdownArtifacts(content) ==
    RemoveEmptyLinks(CleanTableFormatting(ReplaceHorizontalRules(content, 1), 1), 1)

\* The cleaner with its final trim left out.
cleanReadmeContent_NoTrim(content) ==
    IF content = <<>> THEN <<>>
    ELSE cleanMarkdownArtifacts(
           RemoveHtmlComments(
             NormalizeLineEndings(
               StripTrailingBlanks(
                 CollapseNewlines(content, 1), 1), 1), 1))

\* A string never makes a step of the cleaner throw, so the catch branch is
\* taken by no string; the empty string is falsy and returns '' at once.
cleanReadmeContent(content) ==
    IF content = <<>> THEN <<>>
    ELSE trim(
           cleanMarkdownArtifacts(
             RemoveHtmlComments(
               NormalizeLineEndings(
                 StripTrailingBlanks(
                   CollapseNewlines(content, 1), 1), 1), 1)))

----------------------------------------------------------------------------
(* README_CONFIG                                                           *)

MIN_CODE_BLOCK_LENGTH == 10

MAX_CODE_BLOCK_LENGTH == 5000

IDEAL_EXAMPLE_LENGTH == 200

MAX_EXAMPLES == 20

----------------------------------------------------------------------------
(* ExampleExtractor                                                        *)

\* A UsageExample.  The extractor builds its examples without a
\* description; the empty string stands for the absent (falsy) description.
UsageExample(title, description, code, language) ==
    [title |-> title, description |-> description, code |-> code, language |-> language]

Fence == <<Backtick, Backtick, Backtick>>

\* The fence line matched against three grave accents followed by \w+: the
\* tag lower-cased, 'python' when the fence carries no tag.
extractLanguage(codeFenceLine) ==
    LET e == RunEnd(codeFenceLine, 4, WordChars)
    IN  IF startsWith(codeFenceLine, Fence) /\ e > 4
        THEN toLowerCase(SubSeq(codeFenceLine, 4, e - 1))
        ELSE <<"p","y","t","h","o","n">>

isUsageSection(sectionName) ==
    \E keyword \in {<<"u","s","a","g","e">>, <<"e","x","a","m","p","l","e">>, <<"q","u","i","c","k","s","t","a","r","t">>, <<"g","e","t","t","i","n","g"," ","s","t","a","r","t","e","d">>,
                    <<"h","o","w"," ","t","o">>, <<"t","u","t","o","r","i","a","l">>} :
        includes(sectionName, keyword)

isRelevantLanguage(language) ==
    toLowerCase(language) \in
        {<<"p","y","t","h","o","n">>, <<"p","y">>, <<"b","a","s","h">>, <<"s","h","e","l","l">>, <<"s","h">>, <<"t","e","x","t">>, <<>>}

isOutputOnly(code) ==
    ~ \E keyword \in {<<"i","m","p","o","r","t">>, <<"f","r","o","m">>, <<"d","e","f">>, <<"c","l","a","s","s">>, <<"i","f">>, <<"f","o","r">>,
                      <<"w","h","i","l","e">>, <<"t","r","y">>, <<"w","i","t","h">>, <<"=">>} :
        includes(code, keyword)

hasUsageIndicators(code, language, section) ==
    IF includes(code, <<"i","m","p","o","r","t"," ">>) \/ includes(code, <<"f","r","o","m"," ">>) THEN TRUE
    ELSE IF isUsageSection(section) THEN TRUE
    ELSE IF includes(code, <<"=">>) /\ ~includes(code, <<"=","=">>) THEN TRUE
    ELSE FALSE

isLikelyUsageExample(code, language, section) ==
    LET trimmedCode == trim(code)
    IN  IF \/ Len(trimmedCode) < MIN_CODE_BLOCK_LENGTH
           \/ Len(trimmedCode) > MAX_CODE_BLOCK_LENGTH
        THEN FALSE
        ELSE IF language # <<>> /\ ~isRelevantLanguage(language) THEN FALSE
        ELSE IF isOutputOnly(trimmedCode) THEN FALSE
        ELSE hasUsageIndicators(trimmedCode, language, section)

\* The anchored call pattern: \w+ '.' \w+ '(' at the start of the code.
isSimpleCall(code) ==
    LET a == RunEnd(code, 1, WordChars)
        b == RunEnd(code, a + 1, WordChars)
    IN  /\ a > 1
        /\ StartsWithAt(code, a, <<".">>)
        /\ b > a + 1
        /\ StartsWithAt(code, b, <<"(">>)

isSimpleUsageExample(code) ==
    \/ includes(code, <<"i","m","p","o","r","t"," ">>)
    \/ (includes(code, <<"=">>) /\ ~includes(code, <<"=","=">>))
    \/ isSimpleCall(code)

capitalize(word) ==
    IF word = <<>> THEN <<>> ELSE <<toUpperChar(word[1])>> \o SubSeq(word, 2, Len(word))

formatTitle(section) ==
    LET words == split(section, " ")
    IN  join([i \in 1..Len(words) |-> capitalize(words[i])], <<" ">>)

\* The header pattern: one or more '#' followed by a white-space character,
\* at the start of the trimmed line.
IsSectionHeader(trimmedLine) ==
    LET h == RunEnd(trimmedLine, 1, {"#"})
    IN  h > 1 /\ h <= Len(trimmedLine) /\ trimmedLine[h] \in WhiteSpace

\* Removes the leading '#' characters and the white space after them.
StripHeaderMarks(trimmedLine) ==
    LET h == RunEnd(trimmedLine, RunEnd(trimmedLine, 1, {"#"}), WhiteSpace)
    IN  SubSeq(trimmedLine, h, Len(trimmedLine))

\* The local variables of extractBlockExamples before the first line.
BlockScanStart ==
    [currentSection |-> <<>>, inCodeBlock |-> FALSE, currentCodeBlock |-> <<>>,
     currentLanguage |-> <<>>, examples |-> <<>>]

\* One iteration of the line loop of extractBlockExamples.
BlockScanLine(st, line) ==
    LET trimmedLine == trim(line)
        currentSection ==
            IF IsSectionHeader(trimmedLine)
            THEN toLowerCase(StripHeaderMarks(trimmedLine))
            ELSE st.currentSection
        title == IF formatTitle(currentSection) = <<>>
                 THEN <<"C","o","d","e"," ","E","x","a","m","p","l","e">>
                 ELSE formatTitle(currentSection)
        language == IF st.currentLanguage = <<>> THEN <<"p","y","t","h","o","n">> ELSE st.currentLanguage
    IN  IF startsWith(trimmedLine, Fence)
        THEN IF ~st.inCodeBlock
             THEN [st EXCEPT !.currentSection = currentSection,
                             !.inCodeBlock = TRUE,
                             !.currentCodeBlock = <<>>,
                             !.currentLanguage = extractLanguage(trimmedLine)]
             ELSE [st EXCEPT !.currentSection = currentSection,
                             !.inCodeBlock = FALSE,
                             !.currentCodeBlock = <<>>,
                             !.examples =
                                 IF isLikelyUsageExample(st.currentCodeBlock,
                                                         st.currentLanguage, currentSection)
                                 THEN Append(@, UsageExample(title, <<>>,
                                                    trim(st.currentCodeBlock), language))
                                 ELSE @]
        ELSE IF st.inCodeBlock
             THEN [st EXCEPT !.currentSection = currentSection,
                             !.currentCodeBlock = @ \o line \o <<"\n">>]
             ELSE [st EXCEPT !.currentSection = currentSection]

RECURSIVE BlockScan(_, _, _)
BlockScan(lines, i, st) ==
    IF i > Len(lines) THEN st ELSE BlockScan(lines, i + 1, BlockScanLine(st, lines[i]))

extractBlockExamples(readmeContent) ==
    BlockScan(split(readmeContent, "\n"), 1, BlockScanStart).examples

\* The inline-code pattern: a grave accent, one or more characters that are
\* not grave accents, a grave accent.  InlineMatchEnd is the index of the
\* closing accent of the match that starts at j, 0 when none starts there.
InlineMatchEnd(content, j) ==
    IF /\ content[j] = Backtick
       /\ j + 1 <= Len(content)
       /\ content[j + 1] # Backtick
    THEN IndexOfFrom(content, <<Backtick>>, j + 2)
    ELSE 0

\* The exec loop: the search resumes after the closing accent of each match.
RECURSIVE InlineScan(_, _)
InlineScan(content, i) ==
    IF \E j \in i..Len(content) : InlineMatchEnd(content, j) > 0
    THEN LET j == CHOOSE j \in i..Len(content) :
                      /\ InlineMatchEnd(content, j) > 0
                      /\ \A h \in i..(j - 1) : InlineMatchEnd(content, h) = 0
             q == InlineMatchEnd(content, j)
             code == trim(SubSeq(content, j + 1, q - 1))
         IN  (IF isSimpleUsageExample(code)
              THEN <<UsageExample(<<"Q","u","i","c","k"," ","E","x","a","m","p","l","e">>, <<>>, code, <<"p","y","t","h","o","n">>)>>
              ELSE <<>>)
                \o InlineScan(content, q + 1)
    ELSE <<>>

extractInlineExamples(content) == InlineScan(content, 1)

slice(list, n) == SubSeq(list, 1, IF Len(list) < n THEN Len(list) ELSE n)

\* The extraction with the cap on the number of examples left out.
extractUsageExamples_NoCap(readmeContent) ==
    extractBlockExamples(readmeContent) \o extractInlineExamples(readmeContent)

\* ExampleExtractor.extractUsageExamples.  No step throws on a string, so
\* the catch branch is taken by no string.
extractUsageExamples(readmeContent) ==
    slice(extractBlockExamples(readmeContent) \o extractInlineExamples(readmeContent),
          MAX_EXAMPLES)

----------------------------------------------------------------------------
(* ExampleProcessor                                                        *)

\* replace(/['"]/g, '"')
UnifyQuotes(s) ==
    SubSeq([i \in 1..Len(s) |-> IF s[i] \in {"'", "\""} THEN "\"" ELSE s[i]], 1, Len(s))

normalizeCode(code) ==
    toLowerCase(trim(UnifyQuotes(CollapseWhiteSpace(code, 1))))

RECURSIVE DedupFrom(_, _, _, _)
DedupFrom(list, i, seenCodes, unique) ==
    IF i > Len(list) THEN unique
    ELSE LET normalizedCode == normalizeCode(list[i].code)
         IN  IF normalizedCode \notin seenCodes
             THEN DedupFrom(list, i + 1, seenCodes \cup {normalizedCode},
                            Append(unique, list[i]))
             ELSE DedupFrom(list, i + 1, seenCodes, unique)

\* The deduplication keyed on the code as written instead of normalized.
RECURSIVE DedupExactFrom(_, _, _, _)
DedupExactFrom(list, i, seenCodes, unique) ==
    IF i > Len(list) THEN unique
    ELSE IF list[i].code \notin seenCodes
         THEN DedupExactFrom(list, i + 1, seenCodes \cup {list[i].code},
                             Append(unique, list[i]))
         ELSE DedupExactFrom(list, i + 1, seenCodes, unique)

deduplicateExamples_ExactCode(list) == DedupExactFrom(list, 1, {}, <<>>)

deduplicateExamples(list) == DedupFrom(list, 1, {}, <<>>)

isGoodTitle(title) ==
    \E keyword \in {<<"u","s","a","g","e">>, <<"e","x","a","m","p","l","e">>, <<"q","u","i","c","k","s","t","a","r","t">>, <<"b","a","s","i","c">>, <<"s","i","m","p","l","e">>,
                    <<"g","e","t","t","i","n","g"," ","s","t","a","r","t","e","d">>} :
        includes(toLowerCase(title), keyword)

\* The unanchored method-call pattern: \w+ '.' \w+ '(' anywhere in the code.
hasMethodCall(code) ==
    \E i \in 2..Len(code) :
        /\ code[i] = "."
        /\ code[i - 1] \in WordChars
        /\ RunEnd(code, i + 1, WordChars) > i + 1
        /\ StartsWithAt(code, RunEnd(code, i + 1, WordChars), <<"(">>)

\* A score without the penalty for long code.
calculateRelevanceScore_NoPenalty(example) ==
    LET length == Len(example.code)
    IN    (IF includes(example.code, <<"i","m","p","o","r","t"," ">>) THEN 50 ELSE 0)
        + (IF includes(example.code, <<"f","r","o","m"," ">>) THEN 45 ELSE 0)
        + (IF includes(example.code, <<"=">>) /\ ~includes(example.code, <<"=","=">>)
           THEN 30 ELSE 0)
        + (IF hasMethodCall(example.code) THEN 25 ELSE 0)
        + (IF example.title # <<>> /\ isGoodTitle(example.title) THEN 20 ELSE 0)
        + (IF example.description # <<>> THEN 15 ELSE 0)
        + (IF length >= 50 /\ length <= IDEAL_EXAMPLE_LENGTH THEN 10 ELSE 0)

calculateRelevanceScore(example) ==
    LET length == Len(example.code)
    IN    (IF includes(example.code, <<"i","m","p","o","r","t"," ">>) THEN 50 ELSE 0)
        + (IF includes(example.code, <<"f","r","o","m"," ">>) THEN 45 ELSE 0)
        + (IF includes(example.code, <<"=">>) /\ ~includes(example.code, <<"=","=">>)
           THEN 30 ELSE 0)
        + (IF hasMethodCall(example.code) THEN 25 ELSE 0)
        + (IF example.title # <<>> /\ isGoodTitle(example.title) THEN 20 ELSE 0)
        + (IF example.description # <<>> THEN 15 ELSE 0)
        + (IF length >= 50 /\ length <= IDEAL_EXAMPLE_LENGTH THEN 10
           ELSE IF length > IDEAL_EXAMPLE_LENGTH
                THEN 0 - ((length - IDEAL_EXAMPLE_LENGTH) \div 100)
                ELSE 0)

\* The comparator of the sort: negative when a is to come before b.
compareByScore(a, b) == calculateRelevanceScore(b) - calculateRelevanceScore(a)

\* Array.prototype.sort is stable: an element goes after every element
\* already placed that the comparator does not put behind it.
RECURSIVE InsertPosition(_, _, _)
InsertPosition(placed, x, i) ==
    IF i > Len(placed) THEN i
    ELSE IF compareByScore(placed[i], x) > 0 THEN i
    ELSE InsertPosition(placed, x, i + 1)

RECURSIVE StableSortFrom(_, _, _)
StableSortFrom(list, i, placed) ==
    IF i > Len(list) THEN placed
    ELSE LET p == InsertPosition(placed, list[i], 1)
         IN  StableSortFrom(list, i + 1,
                 SubSeq(placed, 1, p - 1) \o <<list[i]>> \o SubSeq(placed, p, Len(placed)))

\* A sort by score that reverses the examples of equal score.
sortExamplesByRelevance_TiesReversed(list) ==
    StableSortFrom(SubSeq([i \in 1..Len(list) |-> list[Len(list) + 1 - i]], 1, Len(list)),
                   1, <<>>)

sortExamplesByRelevance(list) == StableSortFrom(list, 1, <<>>)

----------------------------------------------------------------------------
(* ReadmeService                                                           *)

ReadmeService_cleanReadmeContent(content) == cleanReadmeContent(content)

ReadmeService_extractUsageExamples(readmeContent) ==
    sortExamplesByRelevance(deduplicateExamples(extractUsageExamples(readmeContent)))

----------------------------------------------------------------------------
(* Inputs.                                                                 *)

\* The longest document of sections, of cleaner pieces, of inline spans, and
\* the longest list handed to sortExamplesByRelevance.
MaxSections == 2

MaxCleanPieces == 3

MaxRun == 22

MaxSortLen == 3

RECURSIVE Flatten(_, _, _)
Flatten(pieces, i, out) ==
    IF i > Len(pieces) THEN out ELSE Flatten(pieces, i + 1, out \o pieces[i])

\* The sequences of at most n elements of the sequence palette.
RECURSIVE SeqsUpTo(_, _)
SeqsUpTo(palette, n) ==
    IF n = 0 THEN {<<>>}
    ELSE LET shorter == SeqsUpTo(palette, n - 1)
         IN  shorter \cup {Append(s, palette[k]) : s \in shorter, k \in 1..Len(palette)}

\* One section of a README: an optional heading, then a fenced block, closed
\* or left open.
Headings == {<<>>, <<"#","#"," ","U","s","a","g","e","\n">>, <<"#","#"," ","Q","u","i","c","k"," ","S","t","a","r","t","\n">>, <<"#"," ","N","o","t","e","s","\n">>}

FenceTags == {<<>>, <<"p","y","t","h","o","n">>, <<"p","y">>, <<"b","a","s","h">>, <<"y","a","m","l">>, <<"j","a","v","a","s","c","r","i","p","t">>, <<"S","h","e","l","l">>}

Bodies == {<<"i","m","p","o","r","t"," ","r","e","q","u","e","s","t","s","\n","r","e","q","u","e","s","t","s",".","g","e","t","(",".",".",".",")","\n">>,
           <<"p","i","p"," ","i","n","s","t","a","l","l"," ","f","o","o","\n">>,
           <<"p","i","p","x"," ","i","n","s","t","a","l","l"," ","f","o","o","\n">>,
           <<"p","r","i","n","t","(","\"","h","e","l","l","o","\"",")","\n">>,
           <<"x"," ","="," ","1","\n">>,
           <<"f","o","r"," ","i"," ","i","n"," ","r","a","n","g","e","(","3",")",":","\n"," "," "," "," ","p","r","i","n","t","(","i",")","\n">>,
           <<"|"," ","c","o","l"," ","|"," ","c","o","l"," ","|","\n">>,
           <<"n","a","m","e",":"," ","d","e","m","o","\n","l","e","v","e","l",":"," ","3","\n">>,
           <<"r","e","s","u","l","t"," ","="," ","c","l","i","e","n","t",".","r","u","n","(","'","a","'",")","\n">>}

FencedSections ==
    {h \o Fence \o t \o <<"\n">> \o b \o (IF closed THEN Fence \o <<"\n">> ELSE <<>>) :
        h \in Headings, t \in FenceTags, b \in Bodies, closed \in BOOLEAN}

\* Sections that documents are assembled from, several to a document.
SectionPalette ==
    << <<"#","#"," ","U","s","a","g","e","\n",Backtick,Backtick,Backtick,"p","y","t","h","o","n","\n","i","m","p","o","r","t"," ","r","e","q","u","e","s","t","s","\n","r","e","q","u","e","s","t","s",".","g","e","t","(",".",".",".",")","\n",Backtick,Backtick,Backtick,"\n">>,
       <<Backtick,Backtick,Backtick,"p","y","t","h","o","n","\n","i","m","p","o","r","t"," "," ","r","e","q","u","e","s","t","s","\n","\n","r","e","q","u","e","s","t","s",".","g","e","t","(",".",".",".",")","\n",Backtick,Backtick,Backtick,"\n">>,
       <<"#","#"," ","S","e","t","u","p","\n",Backtick,Backtick,Backtick,"p","y","\n","v","a","l","u","e"," ","="," ","c","o","m","p","u","t","e","(","1",")","\n",Backtick,Backtick,Backtick,"\n">>,
       <<Backtick,Backtick,Backtick,"b","a","s","h","\n","p","i","p"," ","i","n","s","t","a","l","l"," ","f","o","o","\n",Backtick,Backtick,Backtick,"\n">>,
       <<"#","#"," ","E","x","a","m","p","l","e","\n",Backtick,Backtick,Backtick,"\n","c","l","i","e","n","t"," ","="," ","C","l","i","e","n","t","(",")","\n","c","l","i","e","n","t",".","r","u","n","(","\"","a","\"",")","\n",Backtick,Backtick,Backtick,"\n">>,
       <<Backtick,Backtick,Backtick,"p","y","t","h","o","n","\n","#"," ","s","e","t","u","p","\n","f","r","o","m"," ","a"," ","i","m","p","o","r","t"," ","b","\n">>,
       <<"U","s","e"," ",Backtick,"x"," ","="," ","'","a","'",Backtick," ","h","e","r","e","\n">>,
       <<"O","r"," ",Backtick,"X"," "," ","="," "," ","\"","a","\"",Backtick," ","a","n","d"," ",Backtick,"i","m","p","o","r","t"," ","o","s",Backtick,"\n">>,
       <<"C","a","l","l"," ",Backtick,"o","s",".","g","e","t","c","w","d","(",")",Backtick," ","f","i","r","s","t","\n">>,
       <<"p","l","a","i","n"," ","t","e","x","t","\n">> >>

SectionDocs == {Flatten(d, 1, <<>>) : d \in SeqsUpTo(SectionPalette, MaxSections)}

\* n inline spans `v=a` `v=b` ... (all different) or n times `v=a`.
RECURSIVE InlineRun(_, _)
InlineRun(n, distinct) ==
    IF n = 0 THEN <<>>
    ELSE InlineRun(n - 1, distinct)
           \o <<Backtick>> \o <<"v","=">>
           \o <<LowerAlpha[IF distinct THEN ((n - 1) % 26) + 1 ELSE 1]>>
           \o <<Backtick, " ">>

RunDocs ==
    {p \o InlineRun(n, distinct) :
        p \in {<<>>, SectionPalette[1]}, n \in 0..MaxRun, distinct \in BOOLEAN}

\* What the cleaner rewrites, between two letters or bare.
CleanPalette ==
    << <<"\n">>, <<"\n", "\n">>, <<" ">>, <<"\r", "\n">>, <<"<","!","-","-","c","-","-",">">>, <<"*","*","*">>, <<"|">>,
       <<"[","t","]","(",")">> >>

CleanDocs ==
    UNION {{Flatten(d, 1, <<>>), <<"a">> \o Flatten(d, 1, <<>>) \o <<"b">>} :
              d \in SeqsUpTo(CleanPalette, MaxCleanPieces)}

\* Texts with HTML tags: opening, closing, self-closing, with attributes.
HtmlDocs ==
    {<<"<","b",">","b","o","l","d","<","/","b",">">>,
     <<"a","<","b","r","/",">","b">>,
     <<"<","d","i","v"," ","c","l","a","s","s","=","\"","x","\"",">","t","<","/","d","i","v",">","\n">>,
     <<"s","e","e"," ","<","a"," ","h","r","e","f","=","\"","u","\"",">","d","o","c","s","<","/","a",">"," ","a","n","d"," ","<","i","m","g"," ","s","r","c","=","\"","i","\""," ","/",">">>,
     <<"#"," ","T","i","t","l","e","\n","\n","<","d","i","v",">","S","o","m","e"," ","H","T","M","L"," ","c","o","n","t","e","n","t","<","/","d","i","v",">","\n","\n","<","s","c","r","i","p","t",">","a","l","e","r","t","(","'","t","e","s","t","'",")",";","<","/","s","c","r","i","p","t",">","\n","\n","R","e","g","u","l","a","r"," ","m","a","r","k","d","o","w","n"," ","c","o","n","t","e","n","t",".">>}

\* Fenced blocks of configuration languages; each body holds one of the
\* words the output-only rule looks for.
ConfigBlocks ==
    {[language |-> <<"y","a","m","l">>, body |-> <<"n","a","m","e",":"," ","d","e","m","o","\n","m","o","d","e",":"," ","d","e","f","a","u","l","t","\n">>],
     [language |-> <<"j","s","o","n">>, body |-> <<"{","\"","n","a","m","e","\"",":"," ","\"","d","e","m","o","\"",","," ","\"","w","i","t","h","\"",":"," ","1","}","\n">>],
     [language |-> <<"t","o","m","l">>, body |-> <<"[","t","o","o","l","]","\n","n","a","m","e"," ","="," ","\"","d","e","m","o","\"","\n">>],
     [language |-> <<"i","n","i">>, body |-> <<"[","m","a","i","n","]","\n","n","a","m","e"," ","="," ","d","e","m","o","\n">>]}

ConfigDoc(block) ==
    <<"#","#"," ","C","o","n","f","i","g","u","r","a","t","i","o","n","\n">> \o Fence \o block.language \o <<"\n">> \o block.body
        \o Fence \o <<"\n">>

ConfigDocs == {ConfigDoc(block) : block \in ConfigBlocks}

\* A python block that holds a comment line starting with '#', alone, under
\* a heading, and followed by a second block.
CommentBlock == Fence \o <<"p","y","t","h","o","n","\n","#"," ","s","e","t","u","p","\n","i","m","p","o","r","t"," ","o","s","\n">> \o Fence \o <<"\n">>

LaterBlock == Fence \o <<"p","y","t","h","o","n","\n","v","a","l","u","e"," ","="," ","c","o","m","p","u","t","e","(","1",")","\n">> \o Fence \o <<"\n">>

CommentDocs ==
    {CommentBlock, <<"#","#"," ","U","s","a","g","e","\n">> \o CommentBlock,
     <<"#","#"," ","U","s","a","g","e","\n">> \o CommentBlock \o LaterBlock}

\* Twenty and more inline assignments, all different, and then an import.
CapDocs == {InlineRun(n, TRUE) \o <<Backtick>> \o <<"i","m","p","o","r","t"," ","o","s">> \o <<Backtick>> : n \in 19..21}

Inputs ==
    FencedSections \cup SectionDocs \cup RunDocs \cup CleanDocs \cup HtmlDocs
        \cup ConfigDocs \cup CommentDocs \cup CapDocs

\* Lists for sortExamplesByRelevance alone.
ExamplePalette ==
    << UsageExample(<<"U","s","a","g","e">>, <<>>, <<"i","m","p","o","r","t"," ","a">>, <<"p","y","t","h","o","n">>),
       UsageExample(<<"Q","u","i","c","k"," ","E","x","a","m","p","l","e">>, <<>>, <<"i","m","p","o","r","t"," ","b">>, <<"p","y","t","h","o","n">>),
       UsageExample(<<"N","o","t","e","s">>, <<"h","o","w">>, <<"v"," ","="," ","1">>, <<"p","y","t","h","o","n">>),
       UsageExample(<<>>, <<>>, <<"a",".","b","(","c",")">>, <<"b","a","s","h">>),
       UsageExample(<<"N","o","t","e","s">>, <<>>, <<"q"," ","=","="," ","r">>, <<"p","y">>) >>

ExampleLists == SeqsUpTo(ExamplePalette, MaxSortLen)

----------------------------------------------------------------------------
(* The calls.  A call is made once on the argument drawn at the start;     *)
(* pc holds the names of the calls made so far.                            *)

Init ==
    /\ \/ text \in Inputs /\ sortInput = <<>>
       \/ text = <<>> /\ sortInput \in ExampleLists
    /\ cleaned = <<>>
    /\ recleaned = <<>>
    /\ examples = <<>>
    /\ sorted = <<>>
    /\ pc = {}
    /\ CacheIdle /\ PackageIdle /\ RetryIdle

\* service.cleanReadmeContent(text)
CleanReadmeContent ==
    /\ "clean" \notin pc
    /\ sortInput = <<>>
    /\ cleaned' = ReadmeService_cleanReadmeContent(text)
    /\ pc' = pc \cup {"clean"}
    /\ UNCHANGED <<text, recleaned, examples, sortInput, sorted>>
    /\ UNCHANGED <<cacheVars, pypiLog, retry>>

\* service.cleanReadmeContent applied to the result of the first call
CleanAgain ==
    /\ "clean" \in pc
    /\ "reclean" \notin pc
    /\ recleaned' = ReadmeService_cleanReadmeContent(cleaned)
    /\ pc' = pc \cup {"reclean"}
    /\ UNCHANGED <<text, cleaned, examples, sortInput, sorted>>
    /\ UNCHANGED <<cacheVars, pypiLog, retry>>

\* service.extractUsageExamples(text)
ExtractUsageExamples ==
    /\ "extract" \notin pc
    /\ sortInput = <<>>
    /\ examples' = ReadmeService_extractUsageExamples(text)
    /\ pc' = pc \cup {"extract"}
    /\ UNCHANGED <<text, cleaned, recleaned, sortInput, sorted>>
    /\ UNCHANGED <<cacheVars, pypiLog, retry>>

\* processor.sortExamplesByRelevance(sortInput)
SortExamplesByRelevance ==
    /\ "sort" \notin pc
    /\ text = <<>>
    /\ sorted' = sortExamplesByRelevance(sortInput)
    /\ pc' = pc \cup {"sort"}
    /\ UNCHANGED <<text, cleaned, recleaned, examples, sortInput>>
    /\ UNCHANGED <<cacheVars, pypiLog, retry>>

Next ==
    \/ CleanReadmeContent
    \/ CleanAgain
    \/ ExtractUsageExamples
    \/ SortExamplesByRelevance

Spec == Init /\ [][Next]_vars

----------------------------------------------------------------------------
(* Properties.                                                             *)

IsStringValue(s) == s \in Seq(STRING)

IsUsageExample(e) ==
    /\ DOMAIN e = {"title", "description", "code", "language"}
    /\ IsStringValue(e.title) /\ IsStringValue(e.description)
    /\ IsStringValue(e.code) /\ IsStringValue(e.language)

IsBlank(s) == \A i \in 1..Len(s) : s[i] \in WhiteSpace

\* C1: both entry points of ReadmeService return a value of their type for
\* every text (a string, a list of examples), and for an empty or
\* white-space-only text the cleaner returns the empty string and the
\* extraction the empty list.
C1_EntryPointsTotal ==
    /\ "clean" \in pc =>
          /\ IsStringValue(cleaned)
          /\ IsBlank(text) => cleaned = <<>>
    /\ "extract" \in pc =>
          /\ \A i \in 1..Len(examples) : IsUsageExample(examples[i])
          /\ IsBlank(text) => examples = <<>>

C1_Witness ==
    /\ {"clean", "extract"} \subseteq pc
    /\ Len(text) > 1
    /\ IsBlank(text)
    /\ cleaned = <<>>
    /\ examples = <<>>

\* C2: no two examples of the returned list have the same normalized code.
C2_NoDuplicateKeys ==
    "extract" \in pc =>
        \A i, j \in 1..Len(examples) :
            i # j => normalizeCode(examples[i].code) # normalizeCode(examples[j].code)

\* The extraction found two candidates with one key and returned one of them.
C2_Witness ==
    /\ "extract" \in pc
    /\ Len(examples) >= 2
    /\ Len(examples) < Len(extractUsageExamples(text))

\* C3: every returned example has a code of 10 to 5000 characters.
C3_CodeLengthBound ==
    "extract" \in pc =>
        \A i \in 1..Len(examples) :
            /\ Len(examples[i].code) >= 10
            /\ Len(examples[i].code) <= 5000

CanonicalLanguages == {<<"p","y","t","h","o","n">>, <<"b","a","s","h">>, <<"y","a","m","l">>, <<"j","s","o","n">>, <<"t","o","m","l">>, <<"i","n","i">>}

\* C4: every returned example has a canonical language name, never an alias.
C4_CanonicalLanguage ==
    "extract" \in pc =>
        \A i \in 1..Len(examples) : examples[i].language \in CanonicalLanguages

\* C5: cleaning a cleaned text changes nothing.
C5_CleanIdempotent == "reclean" \in pc => recleaned = cleaned

Scenario1 == <<"#","#"," ","U","s","a","g","e","\n",Backtick,Backtick,Backtick,"p","y","t","h","o","n","\n","i","m","p","o","r","t"," ","r","e","q","u","e","s","t","s","\n","r","e","q","u","e","s","t","s",".","g","e","t","(",".",".",".",")","\n",Backtick,Backtick,Backtick,"\n">>

\* C6: the Usage heading followed by one fenced python block yields exactly
\* one example, of language python, whose code contains the import.
C6_UsageBlockOnce ==
    ("extract" \in pc /\ text = Scenario1) =>
        /\ Len(examples) = 1
        /\ examples[1].language = <<"p","y","t","h","o","n">>
        /\ includes(examples[1].code, <<"i","m","p","o","r","t"," ","r","e","q","u","e","s","t","s">>)

InstallDocs ==
    {<<Backtick,Backtick,Backtick,"b","a","s","h","\n","p","i","p"," ","i","n","s","t","a","l","l"," ","f","o","o","\n",Backtick,Backtick,Backtick,"\n">>, <<Backtick,Backtick,Backtick,"b","a","s","h","\n","p","i","p","x"," ","i","n","s","t","a","l","l"," ","f","o","o","\n",Backtick,Backtick,Backtick,"\n">>}

\* C7: a fenced bash block holding an install command, under no usage
\* heading, is returned as an example of language bash.
C7_InstallCommandAccepted ==
    ("extract" \in pc /\ text \in InstallDocs) =>
        \E i \in 1..Len(examples) :
            /\ examples[i].language = <<"b","a","s","h">>
            /\ includes(examples[i].code, <<" ","i","n","s","t","a","l","l"," ","f","o","o">>)

Scenario6 == <<"#","#"," ","Q","u","i","c","k"," ","S","t","a","r","t","\n",Backtick,Backtick,Backtick,"\n","p","r","i","n","t","(","\"","h","e","l","l","o","\"",")","\n",Backtick,Backtick,Backtick,"\n">>

\* C8: an untagged fenced block holding print("hello") under the Quick Start
\* heading is returned with language python.
C8_UntaggedBlockAccepted ==
    ("extract" \in pc /\ text = Scenario6) =>
        \E i \in 1..Len(examples) :
            /\ examples[i].language = <<"p","y","t","h","o","n">>
            /\ examples[i].code = <<"p","r","i","n","t","(","\"","h","e","l","l","o","\"",")">>

\* C9: at most 20 examples are returned.
C9_AtMostTwenty == "extract" \in pc => Len(examples) <= 20

\* More than 20 candidates were found and 20 examples are returned.
C9_Witness ==
    /\ "extract" \in pc
    /\ Len(extractBlockExamples(text)) + Len(extractInlineExamples(text)) > 20
    /\ Len(examples) = 20

NonIncreasingScores(list) ==
    \A i \in 1..(Len(list) - 1) :
        calculateRelevanceScore(list[i]) >= calculateRelevanceScore(list[i + 1])

ScoresOf(list) == {calculateRelevanceScore(list[i]) : i \in 1..Len(list)}

WithScore(list, v) == SelectSeq(list, LAMBDA e : calculateRelevanceScore(e) = v)

\* The examples of each score are the same, in the same order, in both lists.
KeepsOrderOfEqualScores(input, output) ==
    /\ Len(output) = Len(input)
    /\ \A v \in ScoresOf(input) \cup ScoresOf(output) :
           WithScore(output, v) = WithScore(input, v)

\* C10: the list returned by extractUsageExamples, and by
\* sortExamplesByRelevance for any list, is in non-increasing order of score
\* and examples of equal score keep the order they had in the input.
C10_StableDescendingOrder ==
    /\ "extract" \in pc =>
          /\ NonIncreasingScores(examples)
          /\ KeepsOrderOfEqualScores(deduplicateExamples(extractUsageExamples(text)), examples)
    /\ "sort" \in pc =>
          /\ NonIncreasingScores(sorted)
          /\ KeepsOrderOfEqualScores(sortInput, sorted)

\* The ranking moved an example and left two different examples of one score.
C10_Witness ==
    /\ "extract" \in pc
    /\ examples # deduplicateExamples(extractUsageExamples(text))
    /\ \E i \in 1..(Len(examples) - 1) :
           /\ examples[i] # examples[i + 1]
           /\ calculateRelevanceScore(examples[i]) = calculateRelevanceScore(examples[i + 1])

\* A tag starts at i: "<", an optional "/", a letter, and a ">" further on
\* with no other angle bracket in between.
TagAt(s, i) ==
    /\ i + 1 <= Len(s)
    /\ s[i] = "<"
    /\ LET k == IF s[i + 1] = "/" THEN i + 2 ELSE i + 1
       IN  /\ k <= Len(s)
           /\ s[k] \in LowerSet \cup UpperSet
           /\ \E j \in (k + 1)..Len(s) :
                  /\ s[j] = ">"
                  /\ \A m \in k..(j - 1) : s[m] \notin {"<", ">"}

HasTagMarkup(s) == \E i \in 1..Len(s) : TagAt(s, i)

\* Position i lies between a "<" and the ">" that closes it.
InsideMarkup(s, i) ==
    \E a \in 1..i : \E b \in i..Len(s) :
        /\ s[a] = "<" /\ s[b] = ">"
        /\ \A m \in a..(b - 1) : s[m] # ">"
        /\ \A m \in (a + 1)..b : s[m] # "<"

\* Every letter and digit outside the markup of s is still in t.
KeepsTextOutsideMarkup(s, t) ==
    \A c \in LowerSet \cup UpperSet \cup Digits :
        Cardinality({i \in 1..Len(s) : s[i] = c /\ ~InsideMarkup(s, i)})
            <= Cardinality({i \in 1..Len(t) : t[i] = c})

\* C11: cleanReadmeContent removes every HTML tag, opening, closing or
\* self-closing, and keeps the text between the tags: the cleaned text holds
\* no tag markup.
C11_NoTagMarkup ==
    "clean" \in pc =>
        /\ ~HasTagMarkup(cleaned)
        /\ HasTagMarkup(text) => KeepsTextOutsideMarkup(text, cleaned)

----------------------------------------------------------------------------
(* MemoryCache.                                                            *)

\* An optional argument: Undefined when it is left out, <<n>> when n is
\* passed.  null is the empty tuple as well.
Undefined == <<>>

Null == <<>>

Some(v) == <<v>>

DEFAULT_MAX_SIZE == 104857600

DEFAULT_TTL == 3600000

MIN_SIZE == 1048576

MIN_TTL == 60000

Max(a, b) == IF a >= b THEN a ELSE b

\* n || d for an optional number n: undefined and 0 are falsy.
OrDefault(n, d) == IF n = Undefined \/ n[1] = 0 THEN d ELSE n[1]

\* new MemoryCache(options): the two fields.
MemoryCache(options) ==
    [maxSize    |-> Max(MIN_SIZE, OrDefault(options.maxSize, DEFAULT_MAX_SIZE)),
     defaultTtl |-> Max(MIN_TTL, OrDefault(options.ttl, DEFAULT_TTL))]

CacheEntry(data, timestamp, ttl) ==
    [data |-> data, timestamp |-> timestamp, ttl |-> ttl]

\* The empty Map.
EmptyMap == <<>>

\* 'x'.repeat(n), kept as its length.
Repeat(char, n) == [char |-> char, repeat |-> n]

\* JSON.stringify(s).length of a string: the quotes, and two characters for
\* each character that is written as an escape.
JSONEscaped == {"\"", "\\", "\n", "\r", "\t", "\f"}

JSONStringLength(s) ==
    Len(s) + 2 + Cardinality({i \in 1..Len(s) : s[i] \in JSONEscaped})

\* The sum f[1] + ... + f[n].
RECURSIVE SumTo(_, _)
SumTo(f, n) == IF n = 0 THEN 0 ELSE f[n] + SumTo(f, n - 1)

\* JSON.stringify of an array whose elements have these lengths, and of an
\* object whose members <<key, length>> are the ones that are not undefined.
JSONArrayLength(lengths, n) == 2 + SumTo(lengths, n) + Max(n - 1, 0)

JSONObjectLength(members) ==
    LET n == Len(members)
    IN  2 + SumTo([i \in 1..n |-> Len(members[i][1]) + 3 + members[i][2]], n)
          + Max(n - 1, 0)

JSONMember(key, s) == << <<key, JSONStringLength(s)>> >>

\* A member that JSON.stringify leaves out when it is undefined.
JSONOptionalMember(key, s) == IF s = Undefined THEN <<>> ELSE JSONMember(key, s)

JSONStringsLength(list) ==
    JSONArrayLength([i \in 1..Len(list) |-> JSONStringLength(list[i])], Len(list))

JSONExampleLength(e) ==
    JSONObjectLength(JSONMember("title", e.title)
                       \o JSONOptionalMember("description", e.description)
                       \o JSONMember("code", e.code)
                       \o JSONMember("language", e.language))

JSONResponseLength(r) ==
    JSONObjectLength(
        JSONMember("package_name", r.package_name)
          \o JSONMember("version", r.version)
          \o JSONMember("description", r.description)
          \o JSONMember("readme_content", r.readme_content)
          \o << <<"usage_examples",
                  JSONArrayLength([i \in 1..Len(r.usage_examples) |->
                                      JSONExampleLength(r.usage_examples[i])],
                                  Len(r.usage_examples))>> >>
          \o << <<"installation",
                  JSONObjectLength(JSONMember("pip", r.installation.pip)
                                     \o JSONMember("conda", r.installation.conda)
                                     \o JSONMember("pipx", r.installation.pipx))>> >>
          \o << <<"basic_info",
                  JSONObjectLength(
                      JSONMember("name", r.basic_info.name)
                        \o JSONMember("version", r.basic_info.version)
                        \o JSONMember("description", r.basic_info.description)
                        \o JSONMember("author", r.basic_info.author)
                        \o JSONOptionalMember("maintainer", r.basic_info.maintainer)
                        \o << <<"keywords", JSONStringsLength(r.basic_info.keywords)>> >>
                        \o << <<"classifiers",
                                JSONStringsLength(r.basic_info.classifiers)>> >>
                        \o JSONOptionalMember("requires_python",
                                              r.basic_info.requires_python))>> >>
          \o << <<"exists", IF r.exists THEN 4 ELSE 5>> >>)

\* JSON.stringify(n).length of a whole number n >= 0.
RECURSIVE JSONNumberLength(_)
JSONNumberLength(n) == IF n < 10 THEN 1 ELSE 1 + JSONNumberLength(n \div 10)

\* A score kept in tenths: 10 is written 1, 5 is written 0.5.
JSONScoreLength(t) ==
    JSONNumberLength(t \div 10) + (IF t % 10 = 0 THEN 0 ELSE 2)

JSONResultLength(p) ==
    JSONObjectLength(JSONMember("name", p.name)
                       \o << <<"quality", JSONScoreLength(p.quality)>> >>
                       \o << <<"popularity", JSONScoreLength(p.popularity)>> >>
                       \o << <<"searchScore", JSONNumberLength(p.searchScore)>> >>)

JSONSearchLength(r) ==
    JSONObjectLength(
        JSONMember("query", r.query)
          \o << <<"total", JSONNumberLength(r.total)>> >>
          \o << <<"packages",
                  JSONArrayLength([i \in 1..Len(r.packages) |->
                                      JSONResultLength(r.packages[i])],
                                  Len(r.packages))>> >>)

\* JSON.stringify(value).length.
JSONLength(value) ==
    IF "repeat" \in DOMAIN value THEN value.repeat + 2
    ELSE IF "packages" \in DOMAIN value THEN JSONSearchLength(value)
    ELSE JSONResponseLength(value)

estimateSize(value) == JSONLength(value) * 2

RECURSIVE SumOfSizes(_, _)
SumOfSizes(map, keys) ==
    IF keys = {} THEN 0
    ELSE LET k == CHOOSE k \in keys : TRUE
         IN  estimateSize(map[k].data) + SumOfSizes(map, keys \ {k})

getCurrentSize(map) == SumOfSizes(map, DOMAIN map)

IsExpired(entry, now) == now - entry.timestamp > entry.ttl

\* A cleanup that drops nothing.
cleanup_KeepsAll(map, now) == map

\* cleanup(): drops every expired entry.
cleanup(map, now) ==
    [k \in {k \in DOMAIN map : ~IsExpired(map[k], now)} |-> map[k]]

\* set(key, value, ttl) on a cache with the two fields: the Map afterwards.
MemoryCache_set(map, key, value, ttl, now, max, default) ==
    LET actualTtl == OrDefault(ttl, default)
        entry     == CacheEntry(value, now, actualTtl)
        swept     == cleanup(map, now)
        kept      == IF getCurrentSize(swept) + estimateSize(value) > max
                     THEN EmptyMap ELSE swept
    IN  [k \in DOMAIN kept \cup {key} |-> IF k = key THEN entry ELSE kept[k]]

Without(map, key) == [k \in DOMAIN map \ {key} |-> map[k]]

\* get(key): what it returns and the Map afterwards.
MemoryCache_get(map, key, now) ==
    IF key \notin DOMAIN map THEN [value |-> Null, map |-> map]
    ELSE IF IsExpired(map[key], now) THEN [value |-> Null, map |-> Without(map, key)]
    ELSE [value |-> Some(map[key].data), map |-> map]

\* has(key): what it returns and the Map afterwards.
MemoryCache_has(map, key, now) ==
    IF key \notin DOMAIN map THEN [value |-> FALSE, map |-> map]
    ELSE IF IsExpired(map[key], now) THEN [value |-> FALSE, map |-> Without(map, key)]
    ELSE [value |-> TRUE, map |-> map]

\* delete(key): what it returns and the Map afterwards.
MemoryCache_delete(map, key) ==
    [value |-> key \in DOMAIN map, map |-> Without(map, key)]

MemoryCache_size(map) == Cardinality(DOMAIN map)

----------------------------------------------------------------------------
(* A MemoryCache under calls, with the clock running.                      *)

MaxTicks == 2

CacheKeys == {<<"k","1">>, <<"k","2">>, <<"k","3">>}

Small == Repeat("x", 10)

Large == Repeat("x", 300000)

\* The calls of set: every value and TTL on the first key, fewer on the
\* other two.
SetArguments ==
    [key : {<<"k","1">>}, value : {Small, Large},
     ttl : {Undefined, Some(0), Some(-1000), Some(1)}]
      \cup [key : {<<"k","2">>}, value : {Small}, ttl : {Undefined, Some(1)}]
      \cup [key : {<<"k","3">>}, value : {Large}, ttl : {Undefined}]

ConstructorOptions ==
    {[maxSize |-> Undefined, ttl |-> Undefined],
     [maxSize |-> Some(100), ttl |-> Some(1000)]}

\* The clock moves by one of these steps; TicksIn counts the steps in a time.
ClockSteps == {1, 60000}

TicksIn(now) == (now \div 60000) + (now % 60000)

\* The keys from least to most recently used, key being used now.
Touch(recency, key) == SelectSeq(recency, LAMBDA k : k # key) \o <<key>>

NoSet == <<>>

CacheInit ==
    /\ \E options \in ConstructorOptions :
          /\ maxSize = MemoryCache(options).maxSize
          /\ defaultTtl = MemoryCache(options).defaultTtl
    /\ store = EmptyMap
    /\ clock = 0
    /\ ret = <<>>
    /\ trail = [lastSet |-> NoSet, recency |-> <<>>]
    /\ ReadmeIdle /\ PackageIdle /\ RetryIdle

\* cache.set(key, value, ttl)
Set ==
    \E call \in SetArguments :
        /\ store' = MemoryCache_set(store, call.key, call.value, call.ttl, clock,
                                    maxSize, defaultTtl)
        /\ ret' = [op |-> "set", key |-> call.key]
        /\ trail' = [lastSet |-> [key |-> call.key, value |-> call.value,
                                  at |-> clock, ttl |-> call.ttl],
                     recency |-> Touch(trail.recency, call.key)]
        /\ UNCHANGED <<clock, maxSize, defaultTtl>>
        /\ UNCHANGED <<readmeVars, pypiLog, retry>>

\* cache.get(key)
Get ==
    \E key \in CacheKeys :
        LET got == MemoryCache_get(store, key, clock)
        IN  /\ store' = got.map
            /\ ret' = [op |-> "get", key |-> key, value |-> got.value]
            /\ trail' = IF got.value = Null THEN trail
                        ELSE [trail EXCEPT !.recency = Touch(@, key)]
            /\ UNCHANGED <<clock, maxSize, defaultTtl>>
            /\ UNCHANGED <<readmeVars, pypiLog, retry>>

\* cache.has(key)
Has ==
    \E key \in CacheKeys :
        LET got == MemoryCache_has(store, key, clock)
        IN  /\ store' = got.map
            /\ ret' = [op |-> "has", key |-> key, value |-> got.value]
            /\ UNCHANGED <<clock, maxSize, defaultTtl, trail>>
            /\ UNCHANGED <<readmeVars, pypiLog, retry>>

\* cache.delete(key)
Delete ==
    \E key \in CacheKeys :
        LET got == MemoryCache_delete(store, key)
        IN  /\ store' = got.map
            /\ ret' = [op |-> "delete", key |-> key, value |-> got.value]
            /\ trail' = [lastSet |-> NoSet,
                         recency |-> SelectSeq(trail.recency, LAMBDA k : k # key)]
            /\ UNCHANGED <<clock, maxSize, defaultTtl>>
            /\ UNCHANGED <<readmeVars, pypiLog, retry>>

\* cache.clear()
Clear ==
    /\ store' = EmptyMap
    /\ ret' = [op |-> "clear"]
    /\ trail' = [lastSet |-> NoSet, recency |-> <<>>]
    /\ UNCHANGED <<clock, maxSize, defaultTtl>>
    /\ UNCHANGED <<readmeVars, pypiLog, retry>>

\* Time passes between two calls.
Tick ==
    \E step \in ClockSteps :
        /\ TicksIn(clock + step) <= MaxTicks
        /\ clock' = clock + step
        /\ UNCHANGED <<store, maxSize, defaultTtl, ret, trail>>
        /\ UNCHANGED <<readmeVars, pypiLog, retry>>

CacheNext ==
    \/ Set
    \/ Get
    \/ Has
    \/ Delete
    \/ Clear
    \/ Tick

SpecCache == CacheInit /\ [][CacheNext]_vars

\* The TTL a caller of set expects the entry to have: the one passed,
\* otherwise the default.
ExpectedTtl(set) == IF set.ttl = Undefined THEN defaultTtl ELSE set.ttl[1]

\* The step is a call of get (of has, of set): the clock stands still and the
\* call's result is of that call.
IsCallOf(op) == clock' = clock /\ ret'.op = op

\* The step reads the key that was set last, with nothing but get and has
\* called since.
ReadsLastSet ==
    /\ IsCallOf("get") \/ IsCallOf("has")
    /\ trail.lastSet # NoSet
    /\ trail.lastSet.key = ret'.key

\* C16: with only get and has called since set(k), get(k) returns the value
\* set as long as the time since the set does not exceed the entry's TTL (the
\* TTL passed to set, otherwise the default); once more time has passed,
\* get(k) returns null, has(k) returns false, and the call removes the entry
\* so that size() decreases.
C16_Expiry ==
    [][ReadsLastSet =>
          LET set == trail.lastSet
              key == set.key
          IN  IF clock - set.at <= ExpectedTtl(set)
              THEN IsCallOf("get") => ret'.value = Some(set.value)
              ELSE /\ IsCallOf("get") => ret'.value = Null
                   /\ IsCallOf("has") => ret'.value = FALSE
                   /\ key \notin DOMAIN store'
                   /\ key \in DOMAIN store =>
                          MemoryCache_size(store') < MemoryCache_size(store)]_vars

\* C17: an entry set with a TTL of 0 is expired as soon as any time has
\* passed (get returns null 1 ms after the set), and an entry set with a
\* negative TTL is expired at once.
C17_ZeroAndNegativeTtl ==
    [][(ReadsLastSet /\ IsCallOf("get") /\ trail.lastSet.ttl # Undefined) =>
          LET set == trail.lastSet
              ttl == set.ttl[1]
          IN  /\ (ttl = 0 /\ clock - set.at >= 1) => ret'.value = Null
              /\ ttl < 0 => ret'.value = Null]_vars

PositionIn(recency, key) == CHOOSE i \in 1..Len(recency) : recency[i] = key

\* The unexpired entries used no earlier than key.
UsedNoEarlier(key) ==
    {j \in DOMAIN store :
        /\ ~IsExpired(store[j], clock)
        /\ PositionIn(trail.recency, j) >= PositionIn(trail.recency, key)}

\* C18: when the set of a new key would make the estimated size exceed
\* maxSize, only the least recently used entries are evicted: an unexpired
\* entry stays when it and the entries used after it fit beside the new
\* value.
C18_LeastRecentlyUsedEvicted ==
    [][(IsCallOf("set") /\ ret'.key \notin DOMAIN store) =>
          \A k \in DOMAIN store :
              (/\ ~IsExpired(store[k], clock)
               /\ SumOfSizes(store, UsedNoEarlier(k))
                    + estimateSize(store'[ret'.key].data) <= maxSize)
              => (k \in DOMAIN store' /\ store'[k] = store[k])]_vars

----------------------------------------------------------------------------
(* PackageReadmeService over the cache singleton and the PyPI client.      *)

\* The mark of a step that throws.
Thrown == [threw |-> TRUE]

createCacheKey_packageReadme(packageName, version) ==
    <<"p","k","g","_","r","e","a","d","m","e",":">> \o packageName \o <<":">> \o version

\* The destructuring of the parameters with its two defaults.
VersionOf(params) ==
    IF params.version = Undefined THEN <<"l","a","t","e","s","t">> ELSE params.version[1]

IncludeExamplesOf(params) ==
    IF params.include_examples = Undefined THEN TRUE ELSE params.include_examples[1]

\* a || b for strings: the empty string is falsy.
OrElse(a, b) == IF a # <<>> THEN a ELSE b

\* keywords.split(/[,\s]+/).map(trim).filter(nonempty): the runs of
\* characters that are neither commas nor white space.
KeywordSeparators == WhiteSpace \cup {","}

RECURSIVE KeywordsFrom(_, _)
KeywordsFrom(s, i) ==
    LET a == RunEnd(s, i, KeywordSeparators)
    IN  IF a > Len(s) THEN <<>>
        ELSE LET b == IndexOfClassFrom(s, KeywordSeparators, a)
             IN  IF b = 0 THEN <<From(s, a)>>
                 ELSE <<SubSeq(s, a, b - 1)>> \o KeywordsFrom(s, b)

extractKeywords(info) == KeywordsFrom(info.keywords, 1)

extractAuthor(info) ==
    IF info.author # <<>>
    THEN IF info.author_email # <<>>
         THEN info.author \o <<" ","<">> \o info.author_email \o <<">">>
         ELSE info.author
    ELSE IF info.author_email # <<>> THEN info.author_email
    ELSE <<"U","n","k","n","o","w","n">>

extractMaintainer(info) ==
    IF info.maintainer # <<>>
    THEN IF info.maintainer_email # <<>>
         THEN info.maintainer \o <<" ","<">> \o info.maintainer_email \o <<">">>
         ELSE info.maintainer
    ELSE IF info.maintainer_email # <<>> THEN info.maintainer_email
    ELSE Undefined

\* PackageInfoBuilder.build
PackageInfoBuilder_build(packageInfo) ==
    LET info == packageInfo.info
    IN  [name            |-> info.name,
         version         |-> info.version,
         description     |-> OrElse(info.summary, info.description),
         author          |-> extractAuthor(info),
         maintainer      |-> extractMaintainer(info),
         keywords        |-> extractKeywords(info),
         classifiers     |-> info.classifiers,
         requires_python |-> OrElse(info.requires_python, Undefined)]

ApplicationClassifiers ==
    {<<"E","n","v","i","r","o","n","m","e","n","t"," ",":",":"," ","C","o","n","s","o","l","e">>,
     <<"I","n","t","e","n","d","e","d"," ","A","u","d","i","e","n","c","e"," ",":",":"," ","E","n","d"," ","U","s","e","r","s">>,
     <<"T","o","p","i","c"," ",":",":"," ","S","y","s","t","e","m"," ",":",":"," ","S","y","s","t","e","m","s"," ","A","d","m","i","n","i","s","t","r","a","t","i","o","n">>,
     <<"T","o","p","i","c"," ",":",":"," ","U","t","i","l","i","t","i","e","s">>}

CliKeywords == {<<"c","l","i">>, <<"c","o","m","m","a","n","d">>, <<"t","o","o","l">>, <<"u","t","i","l","i","t","y">>, <<"s","c","r","i","p","t">>}

\* Defined for a package with a name: the name is lower-cased.
hasConsoleScripts(packageInfo) ==
    \/ \E i \in 1..Len(packageInfo.info.classifiers) :
           \E a \in ApplicationClassifiers : includes(packageInfo.info.classifiers[i], a)
    \/ \E keyword \in CliKeywords : includes(toLowerCase(packageInfo.info.name), keyword)

\* InstallationInfoBuilder.build; hasConsoleScripts throws a TypeError on a
\* package without a name.
InstallationInfoBuilder_build(packageInfo) ==
    LET packageName == packageInfo.info.name
    IN  IF packageName = Undefined THEN Thrown
        ELSE [pip   |-> <<"p","i","p"," ","i","n","s","t","a","l","l"," ">> \o packageName,
              conda |-> <<"c","o","n","d","a"," ","i","n","s","t","a","l","l"," ","-","c"," ","c","o","n","d","a","-","f","o","r","g","e"," ">> \o packageName,
              pipx  |-> IF hasConsoleScripts(packageInfo)
                        THEN <<"p","i","p","x"," ","i","n","s","t","a","l","l"," ">> \o packageName
                        ELSE <<"#"," ","p","i","p","x"," ","i","s"," ","f","o","r"," ","C","L","I"," ","a","p","p","l","i","c","a","t","i","o","n","s"," ","o","n","l","y"," ","-"," ","u","s","e"," ","p","i","p"," ","i","n","s","t","e","a","d">>]

\* Defined for a package with info.
extractReadmeContent(packageInfo) ==
    LET info == packageInfo.info
        contentType == toLowerCase(info.description_content_type)
    IN  IF /\ info.description # <<>>
           /\ info.description_content_type # <<>>
           /\ includes(contentType, <<"m","a","r","k","d","o","w","n">>) \/ includes(contentType, <<"m","d">>)
        THEN info.description
        ELSE OrElse(info.summary,
                    OrElse(info.description, <<"N","o"," ","R","E","A","D","M","E"," ","a","v","a","i","l","a","b","l","e"," ","f","o","r"," ","t","h","i","s"," ","p","a","c","k","a","g","e",".">>))

createNotFoundResponse(packageName, version) ==
    [package_name   |-> packageName,
     version        |-> OrElse(version, <<"l","a","t","e","s","t">>),
     description    |-> <<"P","a","c","k","a","g","e"," ","n","o","t"," ","f","o","u","n","d">>,
     readme_content |-> <<>>,
     usage_examples |-> <<>>,
     installation   |-> [pip   |-> <<"p","i","p"," ","i","n","s","t","a","l","l"," ">> \o packageName,
                         conda |-> <<"c","o","n","d","a"," ","i","n","s","t","a","l","l"," ">> \o packageName,
                         pipx  |-> <<"p","i","p","x"," ","i","n","s","t","a","l","l"," ">> \o packageName],
     basic_info     |-> [name            |-> packageName,
                         version         |-> OrElse(version, <<"l","a","t","e","s","t">>),
                         description     |-> <<"P","a","c","k","a","g","e"," ","n","o","t"," ","f","o","u","n","d">>,
                         author          |-> <<"U","n","k","n","o","w","n">>,
                         maintainer      |-> Undefined,
                         keywords        |-> <<>>,
                         classifiers     |-> <<>>,
                         requires_python |-> Undefined],
     exists         |-> FALSE]

\* The call that the private getPackageInfo makes on the PyPI client.
PyPICall(packageName, version) ==
    IF version = <<"l","a","t","e","s","t">>
    THEN [method |-> "getPackageInfo", packageName |-> packageName, version |-> Undefined]
    ELSE [method |-> "getVersionInfo", packageName |-> packageName, version |-> Some(version)]

\* The private getPackageInfo: null when the client rejects.
getPackageInfo(answer) ==
    IF answer.kind = "rejects" THEN Null ELSE answer.data

\* Lines 44-62: the response built from the package, or Thrown.
BuildResponse(params, packageInfo) ==
    IF packageInfo.info = Undefined THEN Thrown
    ELSE LET readmeContent  == extractReadmeContent(packageInfo)
             cleanedContent == ReadmeService_cleanReadmeContent(readmeContent)
             usageExamples  == IF IncludeExamplesOf(params) /\ cleanedContent # <<>>
                               THEN ReadmeService_extractUsageExamples(cleanedContent)
                               ELSE <<>>
             installation   == InstallationInfoBuilder_build(packageInfo)
         IN  IF installation = Thrown THEN Thrown
             ELSE [package_name   |-> params.package_name,
                   version        |-> packageInfo.info.version,
                   description    |-> packageInfo.info.summary,
                   readme_content |-> cleanedContent,
                   usage_examples |-> usageExamples,
                   installation   |-> installation,
                   basic_info     |-> PackageInfoBuilder_build(packageInfo),
                   exists         |-> TRUE]

\* The try block without its catch: what is thrown while the response is
\* built rejects the request.
AfterPackageInfo_NoCatch(params, answer) ==
    LET packageInfo == getPackageInfo(answer)
    IN  IF packageInfo = Null
        THEN [settled  |-> "resolved",
              response |-> createNotFoundResponse(params.package_name, VersionOf(params)),
              cached   |-> FALSE]
        ELSE LET response == BuildResponse(params, packageInfo)
             IN  IF response = Thrown
                 THEN [settled |-> "rejected", response |-> Thrown, cached |-> FALSE]
                 ELSE [settled |-> "resolved", response |-> response, cached |-> TRUE]

\* A try block that hands the not-found response of a missing package to
\* the cache.
AfterPackageInfo_CachesNotFound(params, answer) ==
    LET packageInfo == getPackageInfo(answer)
    IN  IF packageInfo = Null
        THEN [settled  |-> "resolved",
              response |-> createNotFoundResponse(params.package_name, VersionOf(params)),
              cached   |-> TRUE]
        ELSE LET response == BuildResponse(params, packageInfo)
             IN  IF response = Thrown
                 THEN [settled  |-> "resolved",
                       response |-> createNotFoundResponse(params.package_name,
                                                           VersionOf(params)),
                       cached   |-> FALSE]
                 ELSE [settled |-> "resolved", response |-> response, cached |-> TRUE]

\* The try block after the PyPI client has answered: what the request
\* settles with, and the response to be cached, if any.
AfterPackageInfo(params, answer) ==
    LET packageInfo == getPackageInfo(answer)
    IN  IF packageInfo = Null
        THEN [settled  |-> "resolved",
              response |-> createNotFoundResponse(params.package_name, VersionOf(params)),
              cached   |-> FALSE]
        ELSE LET response == BuildResponse(params, packageInfo)
             IN  IF response = Thrown
                 THEN [settled  |-> "resolved",
                       response |-> createNotFoundResponse(params.package_name,
                                                           VersionOf(params)),
                       cached   |-> FALSE]
                 ELSE [settled |-> "resolved", response |-> response, cached |-> TRUE]

\* A lookup that never finds anything.
CachedResponse_AlwaysMiss(map, params, now) == [value |-> Null, map |-> map]

\* Lines 28-33: the cached response, null on a miss.
CachedResponse(map, params, now) ==
    MemoryCache_get(map,
                    createCacheKey_packageReadme(params.package_name, VersionOf(params)),
                    now)

----------------------------------------------------------------------------
(* Requests to getPackageReadme.  A request that misses the cache waits for *)
(* the PyPI client; other requests arrive and time passes meanwhile.       *)

MaxPending == 1

\* What PyPI holds.
RequestsInfo ==
    [name |-> <<"r","e","q","u","e","s","t","s">>,
     version |-> <<"2",".","2","8",".","1">>,
     summary |-> <<"H","T","T","P"," ","f","o","r"," ","H","u","m","a","n","s">>,
     description |-> <<"#"," ","R","e","q","u","e","s","t","s","\n","\n","#","#"," ","U","s","a","g","e","\n",Backtick,Backtick,Backtick,"p","y","t","h","o","n","\n","i","m","p","o","r","t"," ","r","e","q","u","e","s","t","s","\n","r","e","q","u","e","s","t","s",".","g","e","t","(",".",".",".",")","\n",Backtick,Backtick,Backtick,"\n">>,
     description_content_type |-> <<"t","e","x","t","/","m","a","r","k","d","o","w","n">>,
     author |-> <<"K","e","n","n","e","t","h"," ","R","e","i","t","z">>,
     author_email |-> <<>>,
     maintainer |-> <<"P","S","F">>,
     maintainer_email |-> <<"a","@","b",".","c">>,
     keywords |-> <<"h","t","t","p",","," ","r","e","q","u","e","s","t","s">>,
     classifiers |-> <<<<"P","r","o","g","r","a","m","m","i","n","g"," ","L","a","n","g","u","a","g","e"," ",":",":"," ","P","y","t","h","o","n"," ",":",":"," ","3">>>>,
     requires_python |-> <<">","=","3",".","7">>]

MyToolInfo ==
    [name |-> <<"m","y","t","o","o","l">>,
     version |-> <<"0",".","1">>,
     summary |-> <<>>,
     description |-> <<"R","u","n"," ",Backtick,"m","y","t","o","o","l",".","m","a","i","n","(",")",Backtick," ","f","i","r","s","t">>,
     description_content_type |-> <<"t","e","x","t","/","x","-","r","s","t">>,
     author |-> <<>>,
     author_email |-> <<"d","@","e",".","f">>,
     maintainer |-> <<>>,
     maintainer_email |-> <<>>,
     keywords |-> <<>>,
     classifiers |-> <<>>,
     requires_python |-> <<>>]

Catalog == {RequestsInfo, MyToolInfo}

\* What the PyPI client may answer to a call: a rejection, null, the package
\* of that name, a body without info, or a package without a name.
Answers(call) ==
    {[kind |-> "rejects"], [kind |-> "resolves", data |-> Null],
     [kind |-> "resolves", data |-> [info |-> Undefined]]}
      \cup {[kind |-> "resolves", data |-> [info |-> info]] :
               info \in {i \in Catalog : i.name = call.packageName}}
      \cup {[kind |-> "resolves", data |-> [info |-> [info EXCEPT !.name = Undefined]]] :
               info \in {i \in Catalog : i.name = call.packageName}}

Requests ==
    [package_name : {<<"r","e","q","u","e","s","t","s">>}, version : {Undefined},
     include_examples : {Some(TRUE), Some(FALSE)}]
      \cup [package_name : {<<"m","y","t","o","o","l">>}, version : {Some(<<>>)},
            include_examples : {Undefined}]

\* The environment of the singleton: CACHE_MAX_SIZE=100 and CACHE_TTL=1000.
Environment == [maxSize |-> Some(100), ttl |-> Some(1000)]

\* AfterPackageInfo on every request and answer, computed once.
Settlements ==
    [params \in Requests |->
        [answer \in Answers(PyPICall(params.package_name, VersionOf(params))) |->
            AfterPackageInfo(params, answer)]]

RemoveAt(list, i) == SubSeq(list, 1, i - 1) \o SubSeq(list, i + 1, Len(list))

PackageInit ==
    /\ maxSize = MemoryCache(Environment).maxSize
    /\ defaultTtl = MemoryCache(Environment).defaultTtl
    /\ store = EmptyMap
    /\ clock = 0
    /\ ret = <<>>
    /\ trail = <<>>
    /\ pypiLog = <<>>
    /\ ReadmeIdle /\ RetryIdle

\* getPackageReadme(params) up to its await: the cached response is
\* returned, or the PyPI client is called.
GetPackageReadme ==
    \E params \in Requests :
        LET cached == CachedResponse(store, params, clock)
        IN  /\ store' = cached.map
            /\ \/ /\ cached.value # Null
                  /\ ret' = [request |-> params, source |-> "cache",
                             answer |-> <<>>, settled |-> "resolved",
                             response |-> cached.value[1]]
                  /\ pypiLog' = pypiLog
               \/ /\ cached.value = Null
                  /\ Len(pypiLog) < MaxPending
                  /\ pypiLog' = Append(pypiLog,
                                       [request |-> params,
                                        call |-> PyPICall(params.package_name,
                                                          VersionOf(params))])
                  /\ ret' = ret
            /\ UNCHANGED <<clock, maxSize, defaultTtl, trail>>
            /\ UNCHANGED <<readmeVars, retry>>

\* The PyPI client answers and getPackageReadme runs to its end.
PackageInfoArrives ==
    \E i \in 1..Len(pypiLog) : \E answer \in Answers(pypiLog[i].call) :
      \E out \in {Settlements[pypiLog[i].request][answer]} :
        LET params == pypiLog[i].request
            key    == createCacheKey_packageReadme(params.package_name, VersionOf(params))
        IN  /\ store' = IF out.settled = "resolved" /\ out.cached
                        THEN MemoryCache_set(store, key, out.response, Undefined,
                                             clock, maxSize, defaultTtl)
                        ELSE store
            /\ ret' = [request |-> params, source |-> "pypi", answer |-> answer,
                       settled |-> out.settled, response |-> out.response]
            /\ pypiLog' = RemoveAt(pypiLog, i)
            /\ UNCHANGED <<clock, maxSize, defaultTtl, trail>>
            /\ UNCHANGED <<readmeVars, retry>>

PackageNext ==
    \/ GetPackageReadme
    \/ PackageInfoArrives
    \/ Tick

SpecPackage == PackageInit /\ [][PackageNext]_vars

----------------------------------------------------------------------------
(* Properties of getPackageReadme.                                         *)

\* The key of a request: package name and requested version, 'latest' when
\* none is given.
RequestedKey(params) ==
    <<"p","k","g","_","r","e","a","d","m","e",":">> \o params.package_name \o <<":">>
        \o (IF params.version = Undefined THEN <<"l","a","t","e","s","t">> ELSE params.version[1])

\* The cache holds a live response under the key.
Holds(key) ==
    /\ key \in DOMAIN store
    /\ clock - store[key].timestamp <= store[key].ttl

\* C13: getPackageReadme is cache-first.  While the cache holds a response
\* under the key of a request, no PyPI call is made for that request and the
\* response returned from the cache is the one held under that key; and a
\* response built after a miss is in the cache under that same key when it
\* is returned.
C13_CacheFirst ==
    [][/\ \A params \in Requests :
            (Holds(RequestedKey(params)) /\ Len(pypiLog') > Len(pypiLog))
                => pypiLog'[Len(pypiLog')].request # params
       /\ (ret' # ret /\ ret'.source = "cache")
            => /\ Holds(RequestedKey(ret'.request))
               /\ ret'.response = store[RequestedKey(ret'.request)].data
               /\ pypiLog' = pypiLog
       /\ (Len(pypiLog') < Len(pypiLog) /\ ret'.response.exists)
            => /\ RequestedKey(ret'.request) \in DOMAIN store'
               /\ store'[RequestedKey(ret'.request)].data = ret'.response
               /\ store'[RequestedKey(ret'.request)].timestamp = clock
      ]_vars

\* A request has been answered from the cache with a response built earlier,
\* no PyPI call pending.
C13_Witness ==
    /\ ret # <<>>
    /\ ret.source = "cache"
    /\ ret.response.exists
    /\ pypiLog = <<>>

\* The PyPI lookup failed or what it returned could not be built into a
\* response.
LookupFailed(answer) ==
    \/ answer.kind = "rejects"
    \/ answer.data = Null
    \/ answer.data.info = Undefined
    \/ answer.data.info.name = Undefined

IsNotFoundResponse(response, params) ==
    /\ response.exists = FALSE
    /\ response.description = <<"P","a","c","k","a","g","e"," ","n","o","t"," ","f","o","u","n","d">>
    /\ response.readme_content = <<>>
    /\ response.usage_examples = <<>>
    /\ response.package_name = params.package_name
    /\ response.version = IF params.version = Undefined \/ params.version[1] = <<>>
                          THEN <<"l","a","t","e","s","t">>
                          ELSE params.version[1]

\* C14: getPackageReadme never rejects.  Every request resolves, and when the
\* PyPI lookup fails or returns null, or building the response throws, it
\* resolves with the not-found response: exists false, description 'Package
\* not found', empty readme_content and usage_examples, and the requested
\* version or 'latest'.
C14_NeverRejects ==
    ret # <<>> =>
        /\ ret.settled = "resolved"
        /\ (ret.source = "pypi" /\ LookupFailed(ret.answer))
              => IsNotFoundResponse(ret.response, ret.request)

\* A builder threw on a package without a name and the request resolved with
\* the not-found response.
C14_Witness ==
    /\ ret # <<>>
    /\ ret.source = "pypi"
    /\ ret.answer.kind = "resolves"
    /\ ret.answer.data # Null
    /\ ret.answer.data.info # Undefined
    /\ ret.answer.data.info.name = Undefined
    /\ ret.settled = "resolved"
    /\ ret.response.exists = FALSE

C15_IncludeExamplesDecides ==
    (/\ ret # <<>>
     /\ ret.settled = "resolved"
     /\ ret.request.include_examples = Some(TRUE)
     /\ ret.response.exists
     /\ ret.response.readme_content # <<>>)
        => ret.response.usage_examples
             = ReadmeService_extractUsageExamples(ret.response.readme_content)

----------------------------------------------------------------------------
(* withRetry(operation, maxRetries, baseDelay): the retry loop of the      *)
(* error handler.  The operation and the timer are the environment: each   *)
(* invocation settles with a value or an error of its own, and each delay  *)
(* ends.                                                                   *)

MaxRetries == 3

\* The classes that extend PackageReadmeMcpError, itself included.
McpErrorClasses ==
    {"PackageReadmeMcpError", "PackageNotFoundError", "VersionNotFoundError",
     "RateLimitError", "NetworkError"}

\* error instanceof PackageReadmeMcpError
IsPackageReadmeMcpError(error) == error.class \in McpErrorClasses

\* What an invocation may reject with, before it is given its identity: the
\* errors of the types module with the status codes their constructors set,
\* a plain Error without and with a statusCode of its own, and a rejection
\* with a string.
Rejections ==
    {[class |-> "PackageNotFoundError", statusCode |-> Some(404)],
     [class |-> "VersionNotFoundError", statusCode |-> Some(404)],
     [class |-> "RateLimitError", statusCode |-> Some(429)],
     [class |-> "NetworkError", statusCode |-> Undefined],
     [class |-> "Error", statusCode |-> Undefined],
     [class |-> "Error", statusCode |-> Some(404)],
     [class |-> "string", statusCode |-> Undefined]}
      \cup [class : {"PackageReadmeMcpError"},
            statusCode : {Some(400), Some(404), Some(429), Some(500), Undefined}]

\* The error object that invocation number n creates.
ErrorOf(rejection, n) ==
    [class |-> rejection.class, statusCode |-> rejection.statusCode, id |-> n]

\* What an invocation may resolve with.
Results == {[data |-> "a package"], [data |-> "another package"]}

\* Math.random() * 1000, at its ends.
Jitters == {0, 999}

RECURSIVE Pow2(_)
Pow2(n) == IF n = 0 THEN 1 ELSE 2 * Pow2(n - 1)

\* A test that throws on every client error, 429 included.
IsNotRetried_Every4xx(error) ==
    \/ error.class = "PackageNotFoundError"
    \/ IsPackageReadmeMcpError(error) /\ error.statusCode = Some(404)
    \/ /\ IsPackageReadmeMcpError(error)
       /\ error.statusCode # Undefined
       /\ error.statusCode[1] # 0
       /\ error.statusCode[1] >= 400
       /\ error.statusCode[1] < 500

\* Lines 90-94 and 97-104: the errors that are thrown on at once.
IsNotRetried(error) ==
    \/ error.class = "PackageNotFoundError"
    \/ IsPackageReadmeMcpError(error) /\ error.statusCode = Some(404)
    \/ /\ IsPackageReadmeMcpError(error)
       /\ error.statusCode # Undefined
       /\ error.statusCode[1] # 0
       /\ error.statusCode[1] >= 400
       /\ error.statusCode[1] < 500
       /\ error.statusCode[1] # 429

\* Lines 80-85: the operation resolved.
AfterResolve(r, result) ==
    [r EXCEPT !.calls = Append(@, [kind |-> "resolved", value |-> result]),
              !.phase = "returned",
              !.settled = [kind |-> "resolved", value |-> result]]

\* A catch block that keeps the first error it saw as lastError.
AfterReject_KeepFirstError(r, error, jitter) ==
    LET caught == [r EXCEPT !.calls = Append(@, [kind |-> "rejected", value |-> error]),
                            !.lastError = IF @ = Undefined THEN Some(error) ELSE @]
    IN  IF IsNotRetried(error)
        THEN [caught EXCEPT !.phase = "thrown",
                            !.settled = [kind |-> "rejected", value |-> error]]
        ELSE IF r.attempt = r.maxRetries
        THEN [caught EXCEPT !.phase = "thrown",
                            !.settled = [kind |-> "rejected", value |-> caught.lastError[1]]]
        ELSE [caught EXCEPT !.phase = "timer",
                            !.delay = r.baseDelay * Pow2(r.attempt - 1) + jitter]

\* Lines 86-116: the operation rejected.
AfterReject(r, error, jitter) ==
    LET caught == [r EXCEPT !.calls = Append(@, [kind |-> "rejected", value |-> error]),
                            !.lastError = Some(error)]
    IN  IF IsNotRetried(error)
        THEN [caught EXCEPT !.phase = "thrown",
                            !.settled = [kind |-> "rejected", value |-> error]]
        ELSE IF r.attempt = r.maxRetries
        THEN [caught EXCEPT !.phase = "thrown",
                            !.settled = [kind |-> "rejected", value |-> caught.lastError[1]]]
        ELSE [caught EXCEPT !.phase = "timer",
                            !.delay = r.baseDelay * Pow2(r.attempt - 1) + jitter]

\* withRetry is called.
RetryInit ==
    /\ \E max \in 0..MaxRetries :
          retry = [maxRetries |-> max, baseDelay |-> 1000, attempt |-> 1,
                   phase |-> "loop", invocations |-> 0, calls |-> <<>>,
                   lastError |-> Undefined, delay |-> 0, settled |-> Undefined]
    /\ ReadmeIdle /\ CacheIdle /\ PackageIdle

\* Line 76 and line 79: the loop test, then the operation is invoked; line
\* 119 when the loop ends.
LoopTest ==
    /\ retry.phase = "loop"
    /\ retry' = IF retry.attempt <= retry.maxRetries
                THEN [retry EXCEPT !.phase = "operation", !.invocations = @ + 1]
                ELSE [retry EXCEPT !.phase = "thrown",
                                   !.settled = [kind |-> "rejected",
                                                value |-> retry.lastError]]
    /\ UNCHANGED <<readmeVars, cacheVars, pypiLog>>

\* The awaited operation resolves.
OperationResolves ==
    /\ retry.phase = "operation"
    /\ \E result \in Results : retry' = AfterResolve(retry, result)
    /\ UNCHANGED <<readmeVars, cacheVars, pypiLog>>

\* The awaited operation rejects.
OperationRejects ==
    /\ retry.phase = "operation"
    /\ \E rejection \in Rejections : \E jitter \in Jitters :
          retry' = AfterReject(retry, ErrorOf(rejection, retry.invocations), jitter)
    /\ UNCHANGED <<readmeVars, cacheVars, pypiLog>>

\* Line 115: the delay is over; the loop goes on with the next attempt.
TimerFires ==
    /\ retry.phase = "timer"
    /\ retry' = [retry EXCEPT !.phase = "loop", !.attempt = @ + 1]
    /\ UNCHANGED <<readmeVars, cacheVars, pypiLog>>

RetryNext ==
    \/ LoopTest
    \/ OperationResolves
    \/ OperationRejects
    \/ TimerFires

\* Promises settle and timers fire.
SpecRetry == RetryInit /\ [][RetryNext]_vars /\ WF_vars(RetryNext)

----------------------------------------------------------------------------
(* Properties of withRetry.                                                *)

Settled == retry.settled # Undefined

Failed(call) == call.kind = "rejected"

\* 429, a 5xx status, or no status code at all.
HasRetryableStatus(error) ==
    \/ error.statusCode = Undefined
    \/ error.statusCode = Some(429)
    \/ error.statusCode[1] >= 500 /\ error.statusCode[1] < 600

\* What C19 says of every state of a call with maxRetries >= 1.
RetryBound ==
    retry.maxRetries >= 1 =>
        /\ retry.invocations <= retry.maxRetries
        /\ Len(retry.calls) <= retry.invocations
        /\ \A i \in 1..Len(retry.calls) :
              ~Failed(retry.calls[i]) =>
                  /\ i = Len(retry.calls)
                  /\ retry.invocations = i
                  /\ retry.settled = [kind |-> "resolved", value |-> retry.calls[i].value]
        /\ (Settled /\ retry.settled.kind = "resolved") =>
              /\ retry.calls # <<>>
              /\ ~Failed(retry.calls[Len(retry.calls)])
        /\ (/\ Len(retry.calls) = retry.maxRetries
            /\ \A i \in 1..Len(retry.calls) :
                  Failed(retry.calls[i]) /\ HasRetryableStatus(retry.calls[i].value))
              => retry.settled = [kind |-> "rejected",
                                  value |-> retry.calls[retry.maxRetries].value]

\* C19: withRetry with maxRetries >= 1 always settles, after at most
\* maxRetries invocations of the operation.  It resolves with the result of
\* the first invocation that succeeds and never invokes the operation after
\* a success; when all maxRetries invocations fail with retryable errors it
\* rejects with the error of the last one.
C19_SettlesWithinMaxRetries ==
    /\ []RetryBound
    /\ (retry.maxRetries >= 1) ~> Settled

\* All of three invocations failed with retryable errors and the call
\* rejected.
C19_Witness ==
    /\ retry.maxRetries = 3
    /\ Len(retry.calls) = 3
    /\ \A i \in 1..3 : Failed(retry.calls[i]) /\ HasRetryableStatus(retry.calls[i].value)
    /\ Settled
    /\ retry.settled.kind = "rejected"

\* PackageNotFoundError, or a PackageReadmeMcpError with status 404 or with
\* another 4xx status that is not 429.
IsClientError(error) ==
    \/ error.class = "PackageNotFoundError"
    \/ /\ error.class \in {"PackageReadmeMcpError", "PackageNotFoundError",
                           "VersionNotFoundError", "RateLimitError", "NetworkError"}
       /\ error.statusCode # Undefined
       /\ error.statusCode[1] \in 400..499
       /\ error.statusCode[1] # 429

\* C20: withRetry retries by error class.  A PackageNotFoundError, and a
\* PackageReadmeMcpError with status 404 or any 4xx status other than 429,
\* end the call: the operation is not invoked again (once only when it is
\* the first failure) and the call rejects with that same error object.  An
\* error with status 429 or 5xx or without a status code, a rejection that
\* is no Error included, is retried while attempts remain: the call settles
\* on it only at attempt maxRetries.
C20_RetryByErrorClass ==
    \A i \in 1..Len(retry.calls) :
        LET error == retry.calls[i].value
        IN  Failed(retry.calls[i]) =>
              /\ IsClientError(error) =>
                    /\ i = Len(retry.calls)
                    /\ retry.invocations = i
                    /\ retry.settled = [kind |-> "rejected", value |-> error]
                    /\ error.id = i
              /\ (~IsClientError(error) /\ HasRetryableStatus(error) /\ i < retry.maxRetries) =>
                    /\ Settled => i < Len(retry.calls)
                    /\ retry.phase = "thrown" => i < Len(retry.calls)
                    /\ i = Len(retry.calls) /\ retry.phase = "timer"
                          => retry.delay >= retry.baseDelay

\* A 429 was retried and the next invocation's 400 ended the call at once.
C20_Witness ==
    /\ retry.maxRetries = 3
    /\ Len(retry.calls) = 2
    /\ Failed(retry.calls[1]) /\ retry.calls[1].value.statusCode = Some(429)
    /\ Failed(retry.calls[2]) /\ retry.calls[2].value.statusCode = Some(400)
    /\ retry.invocations = 2
    /\ Settled

----------------------------------------------------------------------------
(* Several getPackageReadme calls for one package in flight at once.  A    *)
(* call runs without interruption up to its await and again from the      *)
(* answer of the PyPI client to its return, so the calls interleave at the *)
(* await only.  The cache starts empty and PyPI answers with the package.  *)

MaxInFlight == 2

\* The calls made at once: the same package, with and without examples.
ConcurrentRequests ==
    [package_name : {<<"r","e","q","u","e","s","t","s">>}, version : {Undefined},
     include_examples : {Some(TRUE), Some(FALSE)}]

\* PyPI answers successfully.
SuccessfulAnswer(call) ==
    CHOOSE answer \in Answers(call) :
        /\ answer.kind = "resolves"
        /\ answer.data # Null
        /\ answer.data.info # Undefined
        /\ answer.data.info.name = call.packageName

\* A cache that refuses to overwrite a key it holds: the set throws and the
\* catch answers with the not-found response.
StoreAndReturn_RefusesOverwrite(map, params, response, now) ==
    LET key == createCacheKey_packageReadme(params.package_name, VersionOf(params))
    IN  IF key \in DOMAIN map
        THEN [map |-> map,
              response |-> createNotFoundResponse(params.package_name, VersionOf(params))]
        ELSE [map |-> MemoryCache_set(map, key, response, Undefined, now,
                                      maxSize, defaultTtl),
              response |-> response]

\* Lines 65-68: the response is stored under the key of the request and
\* returned.
StoreAndReturn(map, params, response, now) ==
    [map |-> MemoryCache_set(map,
                             createCacheKey_packageReadme(params.package_name,
                                                          VersionOf(params)),
                             response, Undefined, now, maxSize, defaultTtl),
     response |-> response]

ConcurrentInit == PackageInit

\* getPackageReadme(params) up to its await, while other calls are in flight.
ConcurrentCall ==
    \E params \in ConcurrentRequests :
      \E cached \in {CachedResponse(store, params, clock)} :
        /\ store' = cached.map
        /\ IF cached.value # Null
           THEN /\ ret' = [request |-> params, source |-> "cache",
                           answer |-> <<>>, settled |-> "resolved",
                           response |-> cached.value[1]]
                /\ pypiLog' = pypiLog
           ELSE /\ Len(pypiLog) < MaxInFlight
                /\ pypiLog' = Append(pypiLog,
                                     [request |-> params,
                                      call |-> PyPICall(params.package_name,
                                                        VersionOf(params))])
                /\ ret' = ret
        /\ UNCHANGED <<clock, maxSize, defaultTtl, trail>>
        /\ UNCHANGED <<readmeVars, retry>>

\* The PyPI client answers one of the calls in flight, in any order, and
\* that call runs to its end.
ConcurrentAnswer ==
    \E i \in 1..Len(pypiLog) :
      \E answer \in {SuccessfulAnswer(pypiLog[i].call)} :
        \E out \in {Settlements[pypiLog[i].request][answer]} :
          \E stored \in {IF out.cached
                         THEN StoreAndReturn(store, pypiLog[i].request, out.response, clock)
                         ELSE [map |-> store, response |-> out.response]} :
            /\ store' = stored.map
            /\ ret' = [request |-> pypiLog[i].request, source |-> "pypi",
                       answer |-> answer, settled |-> out.settled,
                       response |-> stored.response]
            /\ pypiLog' = RemoveAt(pypiLog, i)
            /\ UNCHANGED <<clock, maxSize, defaultTtl, trail>>
            /\ UNCHANGED <<readmeVars, retry>>

ConcurrentNext ==
    \/ ConcurrentCall
    \/ ConcurrentAnswer
    \/ Tick

SpecConcurrent == ConcurrentInit /\ [][ConcurrentNext]_vars

\* C21: with several getPackageReadme calls for the same package in flight
\* at once, an empty cache at the start and PyPI answering successfully,
\* every call resolves with a response that has exists = true and the
\* package name of the call, however the calls interleave.
C21_ConcurrentCallsAllSucceed ==
    ret # <<>> =>
        /\ ret.settled = "resolved"
        /\ ret.response.exists = TRUE
        /\ ret.response.package_name = ret.request.package_name
        /\ ret.response.package_name = <<"r","e","q","u","e","s","t","s">>

\* One call has stored its response and returned while another, started
\* before that write, is still in flight.
C21_Witness ==
    /\ clock = 0
    /\ ret # <<>>
    /\ ret.source = "pypi"
    /\ ret.response.exists
    /\ pypiLog # <<>>
    /\ Holds(RequestedKey(pypiLog[1].request))

----------------------------------------------------------------------------
(* validatePackageName: the validator of validators.ts and the one with    *)
(* detailed messages.  Each returns nothing or throws a                    *)
(* PackageReadmeMcpError of code INVALID_PACKAGE_NAME; the model names the *)
(* check that threw.                                                       *)

Accepted == [threw |-> FALSE]

InvalidPackageName(check) ==
    [threw |-> TRUE, class |-> "PackageReadmeMcpError",
     code |-> "INVALID_PACKAGE_NAME", check |-> check]

Alphanumeric == LowerSet \cup UpperSet \cup Digits

\* /^[a-zA-Z0-9]([a-zA-Z0-9._-]*[a-zA-Z0-9])?$/
validNamePattern(s) ==
    /\ s # <<>>
    /\ s[1] \in Alphanumeric
    /\ s[Len(s)] \in Alphanumeric
    /\ \A i \in 1..Len(s) : s[i] \in Alphanumeric \cup {".", "_", "-"}

\* validatePackageName of validators.ts.
validatePackageName(packageName) ==
    LET trimmed == trim(packageName)
    IN  IF packageName = <<>> THEN InvalidPackageName("required")
        ELSE IF Len(trimmed) = 0 THEN InvalidPackageName("empty")
        ELSE IF Len(trimmed) > 214 THEN InvalidPackageName("too long")
        ELSE IF ~validNamePattern(trimmed) THEN InvalidPackageName("format")
        ELSE IF toLowerCase(trimmed) \in {<<"p","i","p">>, <<"s","e","t","u","p","t","o","o","l","s">>, <<"w","h","e","e","l">>, <<"d","i","s","t","u","t","i","l","s">>}
        THEN InvalidPackageName("reserved")
        ELSE IF trimmed[1] = "." \/ trimmed[Len(trimmed)] = "."
        THEN InvalidPackageName("dot")
        ELSE IF \/ includes(trimmed, <<".",".">>)
                \/ includes(trimmed, <<"-","-">>)
                \/ includes(trimmed, <<"_","_">>)
        THEN InvalidPackageName("consecutive")
        ELSE Accepted

\* validatePackageName with the detailed messages.
validatePackageName_Detailed(packageName) ==
    LET trimmed == trim(packageName)
    IN  IF packageName = <<>> THEN InvalidPackageName("required")
        ELSE IF Len(trimmed) = 0 THEN InvalidPackageName("empty")
        ELSE IF Len(trimmed) > 214 THEN InvalidPackageName("too long")
        ELSE IF toLowerCase(trimmed) \in {<<"p","i","p">>, <<"s","e","t","u","p","t","o","o","l","s">>, <<"w","h","e","e","l">>, <<"d","i","s","t","u","t","i","l","s">>,
                                          <<"p","y","t","h","o","n">>, <<"s","t","d","l","i","b">>}
        THEN InvalidPackageName("reserved")
        ELSE IF trimmed[1] \notin Alphanumeric THEN InvalidPackageName("start")
        ELSE IF trimmed[Len(trimmed)] \notin Alphanumeric THEN InvalidPackageName("end")
        ELSE IF trimmed[1] = "." \/ trimmed[Len(trimmed)] = "."
        THEN InvalidPackageName("dot")
        ELSE IF includes(trimmed, <<".",".">>) THEN InvalidPackageName("consecutive dots")
        ELSE IF includes(trimmed, <<"-","-">>) THEN InvalidPackageName("consecutive hyphens")
        ELSE IF includes(trimmed, <<"_","_">>)
        THEN InvalidPackageName("consecutive underscores")
        ELSE IF ~validNamePattern(trimmed)
        THEN IF \E i \in 1..Len(trimmed) : trimmed[i] \notin Alphanumeric \cup {".", "_", "-"}
             THEN InvalidPackageName("invalid characters")
             ELSE InvalidPackageName("format")
        ELSE Accepted

MaxNameLen == 4

\* The names given to the validators: every name of up to MaxNameLen
\* characters over a letter, the three special characters and a blank, the
\* names of the tests, a reserved name, and a name of 215 characters.
PackageNames ==
    SeqsUpTo(<<"a", ".", "-", "_", " ">>, MaxNameLen)
      \cup {<<"p","a","c","k","a","g","e",".",".","n","a","m","e">>, <<"p","a","c","k","a","g","e","-","-","n","a","m","e">>, <<"p","a","c","k","a","g","e","_","_","n","a","m","e">>, <<"m","y","-","p","a","c","k","a","g","e",".","v","2">>,
            <<"P","i","p">>, <<"p","y","t","h","o","n">>, <<" ","r","e","q","u","e","s","t","s"," ">>, <<"m","y"," ","p","a","c","k","a","g","e">>}
      \cup {[i \in 1..215 |-> "a"]}

ValidateInit ==
    /\ text \in PackageNames
    /\ ret = <<>>
    /\ cleaned = <<>> /\ recleaned = <<>> /\ examples = <<>>
    /\ sortInput = <<>> /\ sorted = <<>> /\ pc = {}
    /\ store = <<>> /\ clock = 0 /\ maxSize = 0 /\ defaultTtl = 0 /\ trail = <<>>
    /\ PackageIdle /\ RetryIdle

ValidatePackageName ==
    /\ ret' = [op |-> "validatePackageName", outcome |-> validatePackageName(text)]
    /\ UNCHANGED <<readmeVars, store, clock, maxSize, defaultTtl, trail, pypiLog, retry>>

ValidatePackageName_Detailed ==
    /\ ret' = [op |-> "validatePackageName (detailed)",
               outcome |-> validatePackageName_Detailed(text)]
    /\ UNCHANGED <<readmeVars, store, clock, maxSize, defaultTtl, trail, pypiLog, retry>>

ValidateNext ==
    \/ ValidatePackageName
    \/ ValidatePackageName_Detailed

SpecValidate == ValidateInit /\ [][ValidateNext]_vars

SpecialCharacters == {".", "-", "_"}

HasConsecutiveSpecials(s) ==
    \E i \in 1..(Len(s) - 1) : s[i] \in SpecialCharacters /\ s[i + 1] \in SpecialCharacters

\* JavaScript's trim on the names of the model, which hold blanks only.
TrimmedName(s) ==
    IF \A i \in 1..Len(s) : s[i] = " " THEN <<>>
    ELSE SubSeq(s, CHOOSE i \in 1..Len(s) : s[i] # " " /\ \A j \in 1..(i - 1) : s[j] = " ",
                   CHOOSE i \in 1..Len(s) : s[i] # " " /\ \A j \in (i + 1)..Len(s) : s[j] = " ")

\* C22: validatePackageName accepts no name with consecutive special
\* characters.  Every name that, once trimmed, holds two adjacent characters
\* among '.', '-' and '_' is rejected with a PackageReadmeMcpError of code
\* INVALID_PACKAGE_NAME.
C22_NoConsecutiveSpecials ==
    (ret # <<>> /\ HasConsecutiveSpecials(TrimmedName(text))) =>
        /\ ret.outcome.threw
        /\ ret.outcome.class = "PackageReadmeMcpError"
        /\ ret.outcome.code = "INVALID_PACKAGE_NAME"

----------------------------------------------------------------------------
(* Properties of the classifier of fenced blocks.                          *)

PythonTags == {<<>>, <<"p","y","t","h","o","n">>, <<"p","y">>}

\* The words the output-only rule looks for.
PythonKeywords ==
    {<<"i","m","p","o","r","t">>, <<"f","r","o","m">>, <<"d","e","f">>, <<"c","l","a","s","s">>, <<"i","f">>, <<"f","o","r">>, <<"w","h","i","l","e">>, <<"t","r","y">>, <<"w","i","t","h">>, <<"=">>}

\* The length rule and the output-only rule, on the body of a block.
PassesLengthAndOutputRules(body) ==
    /\ Len(trim(body)) >= 10
    /\ Len(trim(body)) <= 5000
    /\ \E keyword \in PythonKeywords : includes(trim(body), keyword)

\* C23: every fenced block whose language is python, declared, aliased or
\* defaulted, and that passes the length, language and output-only rules is
\* returned as an example, whatever its heading and whatever else its body
\* holds.
C23_PythonBlockAccepted ==
    "extract" \in pc =>
        \A h \in Headings, t \in PythonTags, b \in Bodies :
            (/\ text = h \o Fence \o t \o <<"\n">> \o b \o Fence \o <<"\n">>
             /\ PassesLengthAndOutputRules(b))
                => \E i \in 1..Len(examples) : examples[i].code = trim(b)

\* C24: a fenced block tagged yaml, json, toml or ini that passes the length
\* and output-only rules is returned as an example with that language.
C24_ConfigBlockAccepted ==
    "extract" \in pc =>
        \A block \in ConfigBlocks :
            (text = ConfigDoc(block) /\ PassesLengthAndOutputRules(block.body))
                => \E i \in 1..Len(examples) :
                      /\ examples[i].language = block.language
                      /\ examples[i].code = trim(block.body)

----------------------------------------------------------------------------
(* calculateRelevanceScore on examples built from known parts.             *)

MaxCodeLength == 420

\* The parts a code is assembled from, one for each thing the score looks
\* for.
CodeParts ==
    [import |-> <<"i","m","p","o","r","t"," ","a","\n">>,
     from   |-> <<"f","r","o","m"," ","b","\n">>,
     assign |-> <<"x"," ","="," ","1","\n">>,
     equals |-> <<"y"," ","=","="," ","2","\n">>,
     call   |-> <<"a",".","b","(","c",")","\n">>]

PartNames == <<"import", "from", "assign", "equals", "call">>

RECURSIVE CodeOf(_, _)
CodeOf(parts, i) ==
    IF i > Len(PartNames) THEN <<>>
    ELSE (IF PartNames[i] \in parts THEN CodeParts[PartNames[i]] ELSE <<>>)
            \o CodeOf(parts, i + 1)

\* The code filled up with '#' to the length, left alone when it is longer.
Padded(code, length) ==
    code \o [i \in 1..(IF length > Len(code) THEN length - Len(code) ELSE 0) |-> "#"]

CodeLengths == {0, 49, 50, 200, 201, 299, 300, MaxCodeLength}

ScoreTitles == {<<>>, <<"N","o","t","e","s">>, <<"B","a","s","i","c"," ","U","s","a","g","e">>, <<"G","E","T","T","I","N","G"," ","S","T","A","R","T","E","D">>, <<"Q","u","i","c","k"," ","E","x","a","m","p","l","e">>}

ScoreDescriptions == {<<>>, <<"h","o","w"," ","t","o"," ","c","a","l","l"," ","i","t">>}

ScoredExample(parts, length, title, description) ==
    UsageExample(title, description, Padded(CodeOf(parts, 1), length), <<"p","y","t","h","o","n">>)

ScoreInit ==
    /\ \E parts \in SUBSET {PartNames[i] : i \in 1..Len(PartNames)}, length \in CodeLengths,
          title \in ScoreTitles, description \in ScoreDescriptions :
          sortInput = <<ScoredExample(parts, length, title, description)>>
    /\ ret = <<>>
    /\ text = <<>> /\ cleaned = <<>> /\ recleaned = <<>> /\ examples = <<>>
    /\ sorted = <<>> /\ pc = {}
    /\ store = <<>> /\ clock = 0 /\ maxSize = 0 /\ defaultTtl = 0 /\ trail = <<>>
    /\ PackageIdle /\ RetryIdle

\* this.calculateRelevanceScore(example), as the ranking calls it.
CalculateRelevanceScore ==
    /\ ret = <<>>
    /\ ret' = [op |-> "calculateRelevanceScore",
               score |-> calculateRelevanceScore(sortInput[1])]
    /\ UNCHANGED <<readmeVars, store, clock, maxSize, defaultTtl, trail, pypiLog, retry>>

ScoreNext == CalculateRelevanceScore

SpecScore == ScoreInit /\ [][ScoreNext]_vars

\* The score the claim gives to an example built from the parts.
ClaimedScore(parts, length, title, description) ==
    LET codeLength == IF length > Len(CodeOf(parts, 1)) THEN length ELSE Len(CodeOf(parts, 1))
    IN    (IF "import" \in parts THEN 50 ELSE 0)
        + (IF "from" \in parts THEN 45 ELSE 0)
        + (IF "assign" \in parts /\ "equals" \notin parts THEN 30 ELSE 0)
        + (IF "call" \in parts THEN 25 ELSE 0)
        + (IF title \in {<<"B","a","s","i","c"," ","U","s","a","g","e">>, <<"G","E","T","T","I","N","G"," ","S","T","A","R","T","E","D">>, <<"Q","u","i","c","k"," ","E","x","a","m","p","l","e">>}
           THEN 20 ELSE 0)
        + (IF description # <<>> THEN 15 ELSE 0)
        + (IF codeLength >= 50 /\ codeLength <= 200 THEN 10 ELSE 0)
        - (IF codeLength > 200 THEN (codeLength - 200) \div 100 ELSE 0)

\* C25: the relevance score of an example is exactly the sum of +50 for
\* 'import ', +45 for 'from ', +30 for '=' without '==', +25 for a method
\* call word.word(, +20 for a title with one of the good keywords, +15 for a
\* description that is not empty, +10 for a code length of 50 to 200, and
\* minus floor((length - 200) / 100) for a length over 200; it may be
\* negative.
C25_ScoreIsTheSum ==
    ret # <<>> =>
        \A title \in ScoreTitles, description \in ScoreDescriptions :
            (sortInput[1].title = title /\ sortInput[1].description = description) =>
                \A parts \in SUBSET {PartNames[i] : i \in 1..Len(PartNames)},
                   length \in CodeLengths :
                    sortInput[1].code = Padded(CodeOf(parts, 1), length)
                        => ret.score = ClaimedScore(parts, length, title, description)

\* A long example with nothing in its favour got a negative score.
C25_Witness ==
    /\ ret # <<>>
    /\ ret.score < 0
    /\ Len(sortInput[1].code) > 200

----------------------------------------------------------------------------
(* set after time has passed: the sweep of expired entries at the start of *)
(* every set, as the tests of the cleanup mechanism exercise it.           *)

MaxSweepTicks == 2

\* The calls of set: no, zero, short and long TTLs on three keys, and a
\* value large enough for two of them to overflow the size limit.
SweepArguments ==
    [key : CacheKeys, value : {Small}, ttl : {Undefined, Some(0), Some(1), Some(60000)}]
        \cup [key : {<<"k","2">>, <<"k","3">>}, value : {Large}, ttl : {Undefined}]

SweepInit ==
    /\ maxSize = MemoryCache(Environment).maxSize
    /\ defaultTtl = MemoryCache(Environment).defaultTtl
    /\ store = EmptyMap
    /\ clock = 0
    /\ ret = <<>>
    /\ trail = [lastSet |-> NoSet, purged |-> {}]
    /\ ReadmeIdle /\ PackageIdle /\ RetryIdle

\* cache.set(key, value, ttl); trail notes the call and the keys it removed.
SetAfterSweep ==
    \E call \in SweepArguments :
      \E after \in {MemoryCache_set(store, call.key, call.value, call.ttl, clock,
                                    maxSize, defaultTtl)} :
        /\ store' = after
        /\ ret' = [op |-> "set", key |-> call.key]
        /\ trail' = [lastSet |-> [key |-> call.key, value |-> call.value,
                                  at |-> clock, ttl |-> call.ttl],
                     purged |-> DOMAIN store \ DOMAIN after]
        /\ UNCHANGED <<clock, maxSize, defaultTtl>>
        /\ UNCHANGED <<readmeVars, pypiLog, retry>>

\* Time passes between two calls of set.
SweepTick ==
    \E step \in ClockSteps :
        /\ TicksIn(clock + step) <= MaxSweepTicks
        /\ clock' = clock + step
        /\ UNCHANGED <<store, maxSize, defaultTtl, ret, trail>>
        /\ UNCHANGED <<readmeVars, pypiLog, retry>>

SweepNext ==
    \/ SetAfterSweep
    \/ SweepTick

SpecSweep == SweepInit /\ [][SweepNext]_vars

\* The TTL of the entry had elapsed at the time.
Elapsed(entry, now) == now - entry.timestamp > entry.ttl

\* The keys of the entries that are live at the time.
LiveKeys(map, now) == {k \in DOMAIN map : ~Elapsed(map[k], now)}

\* The set of this step stays within the size limit: the live entries and
\* the new value together are no larger than maxSize.
SetWithoutOverflow ==
    /\ IsCallOf("set")
    /\ trail'.lastSet.at = clock
    /\ SumOfSizes(store, LiveKeys(store, clock)) + estimateSize(trail'.lastSet.value)
          <= maxSize

\* C26: every set first purges all expired entries.  Right after a set that
\* does not overflow the size limit the cache holds no entry whose TTL had
\* elapsed at the time of the set, every entry that was unexpired then is
\* still there, and the key that was set is there.
C26_SetPurgesExpired ==
    [][SetWithoutOverflow =>
          /\ \A k \in DOMAIN store' \ {ret'.key} :
                /\ k \in DOMAIN store
                /\ ~Elapsed(store[k], clock)
                /\ store'[k] = store[k]
          /\ \A k \in LiveKeys(store, clock) : k \in DOMAIN store'
          /\ ret'.key \in DOMAIN store'
          /\ store'[ret'.key].data = trail'.lastSet.value
          /\ store'[ret'.key].timestamp = clock]_vars

\* A set has just removed an expired entry and kept an older entry that was
\* still live.
C26_Witness ==
    /\ ret # <<>>
    /\ ret.op = "set"
    /\ trail.lastSet.at = clock
    /\ trail.purged # {}
    /\ \A k \in trail.purged : k # ret.key
    /\ \E k \in DOMAIN store : k # ret.key /\ store[k].timestamp < clock

\* The candidates of a text that are distinct by normalized code.
DistinctCandidates(readmeContent) ==
    deduplicateExamples(extractUsageExamples_NoCap(readmeContent))

\* C27: capping to 20 never loses a better example.  When a text yields more
\* than 20 candidates that are distinct by normalized code, 20 examples are
\* returned and no candidate left out has a higher score than one returned.
C27_CapKeepsTheBest ==
    ("extract" \in pc /\ Len(DistinctCandidates(text)) > 20) =>
        /\ Len(examples) = 20
        /\ \A i \in 1..Len(DistinctCandidates(text)) :
              LET candidate == DistinctCandidates(text)[i]
              IN  (\A j \in 1..Len(examples) : examples[j] # candidate)
                      => \A j \in 1..Len(examples) :
                            calculateRelevanceScore(candidate)
                                <= calculateRelevanceScore(examples[j])

\* The examples of the list whose code is the given one.
WithCode(list, code) == SelectSeq(list, LAMBDA e : e.code = code)

\* C28: lines inside a fenced block leave the current section unchanged.
\* The title of a fenced example comes from the last heading line outside
\* any fenced block before the block's closing fence, 'Code Example' when
\* there is none; a line '# setup' inside a python block becomes the title
\* neither of that block nor of a later one.
C28_FenceKeepsSection ==
    "extract" \in pc =>
        /\ text = CommentBlock =>
              \A i \in 1..Len(examples) :
                  examples[i].code = <<"#"," ","s","e","t","u","p","\n","i","m","p","o","r","t"," ","o","s">>
                      => examples[i].title = <<"C","o","d","e"," ","E","x","a","m","p","l","e">>
        /\ text \in {<<"#","#"," ","U","s","a","g","e","\n">> \o CommentBlock,
                     <<"#","#"," ","U","s","a","g","e","\n">> \o CommentBlock \o LaterBlock} =>
              \A i \in 1..Len(examples) :
                  examples[i].code \in {<<"#"," ","s","e","t","u","p","\n","i","m","p","o","r","t"," ","o","s">>, <<"v","a","l","u","e"," ","="," ","c","o","m","p","u","t","e","(","1",")">>}
                      => examples[i].title = <<"U","s","a","g","e">>
        /\ text \in CommentDocs => WithCode(examples, <<"#"," ","s","e","t","u","p","\n","i","m","p","o","r","t"," ","o","s">>) # <<>>

----------------------------------------------------------------------------
(* searchPackages: validation, the cache of search responses and the       *)
(* search itself. Scores are kept in tenths (10 stands for 1.0), search    *)
(* scores as whole numbers.                                                *)

InvalidSearch(code, check) ==
    [threw |-> TRUE, class |-> "PackageReadmeMcpError", code |-> code,
     check |-> check]

validateSearchQuery(query) ==
    LET trimmed == trim(query)
    IN  IF query = <<>> THEN InvalidSearch("INVALID_SEARCH_QUERY", "required")
        ELSE IF Len(trimmed) = 0 THEN InvalidSearch("INVALID_SEARCH_QUERY", "empty")
        ELSE IF Len(trimmed) > 200
        THEN InvalidSearch("INVALID_SEARCH_QUERY", "too long")
        ELSE IF includes(trimmed, <<"<","s","c","r","i","p","t">>) \/ includes(trimmed, <<"j","a","v","a","s","c","r","i","p","t",":">>)
        THEN InvalidSearch("INVALID_SEARCH_QUERY", "suspicious")
        ELSE Accepted

\* The limits of the model are whole numbers.
validateLimit(limit) ==
    IF limit < 1 THEN InvalidSearch("INVALID_LIMIT", "at least 1")
    ELSE IF limit > 250 THEN InvalidSearch("INVALID_LIMIT", "at most 250")
    ELSE Accepted

validateScore(score) ==
    IF score < 0 \/ score > 10 THEN InvalidSearch("INVALID_SCORE", "between 0 and 1")
    ELSE Accepted

DigitChars == <<"0","1","2","3","4","5","6","7","8","9">>

\* n.toString() of a whole number n >= 0.
RECURSIVE NumberToString(_)
NumberToString(n) ==
    IF n < 10 THEN <<DigitChars[n + 1]>>
    ELSE NumberToString(n \div 10) \o <<DigitChars[(n % 10) + 1]>>

\* `${score}` of a score kept in tenths: 10 gives 1, 5 gives 0.5.
ScoreToString(t) ==
    NumberToString(t \div 10)
        \o (IF t % 10 = 0 THEN <<>> ELSE <<".">> \o NumberToString(t % 10))

\* createCacheKey.searchResults(query, limit, quality, popularity)
createCacheKey_searchResults(query, limit, quality, popularity) ==
    LET params == <<query, NumberToString(limit)>>
                    \o (IF quality # Undefined
                        THEN <<<<"q",":">> \o ScoreToString(quality[1])>> ELSE <<>>)
                    \o (IF popularity # Undefined
                        THEN <<<<"p",":">> \o ScoreToString(popularity[1])>> ELSE <<>>)
    IN  <<"s","e","a","r","c","h",":">> \o join(params, <<":">>)

\* The packages the fallback search knows.
commonPackages == <<
    [name |-> <<"d","j","a","n","g","o">>, keywords |-> <<<<"w","e","b">>, <<"f","r","a","m","e","w","o","r","k">>, <<"m","v","c">>>>,
     description |-> <<"A"," ","h","i","g","h","-","l","e","v","e","l"," ","P","y","t","h","o","n"," ","W","e","b"," ","f","r","a","m","e","w","o","r","k">>],
    [name |-> <<"f","l","a","s","k">>, keywords |-> <<<<"w","e","b">>, <<"f","r","a","m","e","w","o","r","k">>, <<"m","i","c","r","o">>>>,
     description |-> <<"A"," ","s","i","m","p","l","e"," ","f","r","a","m","e","w","o","r","k"," ","f","o","r"," ","b","u","i","l","d","i","n","g"," ","c","o","m","p","l","e","x"," ","w","e","b"," ","a","p","p","l","i","c","a","t","i","o","n","s">>],
    [name |-> <<"f","a","s","t","a","p","i">>, keywords |-> <<<<"w","e","b">>, <<"a","p","i">>, <<"a","s","y","n","c">>>>,
     description |-> <<"F","a","s","t","A","P","I"," ","f","r","a","m","e","w","o","r","k",","," ","h","i","g","h"," ","p","e","r","f","o","r","m","a","n","c","e",","," ","e","a","s","y"," ","t","o"," ","l","e","a","r","n">>],
    [name |-> <<"p","a","n","d","a","s">>, keywords |-> <<<<"d","a","t","a">>, <<"a","n","a","l","y","s","i","s">>, <<"d","a","t","a","f","r","a","m","e">>>>,
     description |-> <<"P","o","w","e","r","f","u","l"," ","d","a","t","a"," ","s","t","r","u","c","t","u","r","e","s"," ","f","o","r"," ","d","a","t","a"," ","a","n","a","l","y","s","i","s">>],
    [name |-> <<"n","u","m","p","y">>, keywords |-> <<<<"n","u","m","e","r","i","c","a","l">>, <<"a","r","r","a","y">>, <<"s","c","i","e","n","t","i","f","i","c">>>>,
     description |-> <<"F","u","n","d","a","m","e","n","t","a","l"," ","p","a","c","k","a","g","e"," ","f","o","r"," ","a","r","r","a","y"," ","c","o","m","p","u","t","i","n","g">>],
    [name |-> <<"s","c","i","k","i","t","-","l","e","a","r","n">>, keywords |-> <<<<"m","a","c","h","i","n","e">>, <<"l","e","a","r","n","i","n","g">>, <<"m","l">>>>,
     description |-> <<"M","a","c","h","i","n","e"," ","l","e","a","r","n","i","n","g"," ","l","i","b","r","a","r","y"," ","f","o","r"," ","P","y","t","h","o","n">>],
    [name |-> <<"r","e","q","u","e","s","t","s">>, keywords |-> <<<<"h","t","t","p">>, <<"c","l","i","e","n","t">>, <<"a","p","i">>>>,
     description |-> <<"P","y","t","h","o","n"," ","H","T","T","P"," ","f","o","r"," ","H","u","m","a","n","s">>],
    [name |-> <<"h","t","t","p","x">>, keywords |-> <<<<"h","t","t","p">>, <<"a","s","y","n","c">>, <<"c","l","i","e","n","t">>>>,
     description |-> <<"T","h","e"," ","n","e","x","t"," ","g","e","n","e","r","a","t","i","o","n"," ","H","T","T","P"," ","c","l","i","e","n","t"," ","f","o","r"," ","P","y","t","h","o","n">>],
    [name |-> <<"p","y","t","e","s","t">>, keywords |-> <<<<"t","e","s","t","i","n","g">>, <<"t","e","s","t">>, <<"f","r","a","m","e","w","o","r","k">>>>,
     description |-> <<"p","y","t","e","s","t",":"," ","s","i","m","p","l","e"," ","p","o","w","e","r","f","u","l"," ","t","e","s","t","i","n","g"," ","w","i","t","h"," ","P","y","t","h","o","n">>],
    [name |-> <<"u","n","i","t","t","e","s","t">>, keywords |-> <<<<"t","e","s","t","i","n","g">>, <<"t","e","s","t">>, <<"u","n","i","t">>>>,
     description |-> <<"U","n","i","t"," ","t","e","s","t","i","n","g"," ","f","r","a","m","e","w","o","r","k"," ","f","o","r"," ","P","y","t","h","o","n">>],
    [name |-> <<"c","l","i","c","k">>, keywords |-> <<<<"c","l","i">>, <<"c","o","m","m","a","n","d">>, <<"l","i","n","e">>>>,
     description |-> <<"C","o","m","p","o","s","a","b","l","e"," ","c","o","m","m","a","n","d"," ","l","i","n","e"," ","i","n","t","e","r","f","a","c","e"," ","t","o","o","l","k","i","t">>],
    [name |-> <<"p","y","d","a","n","t","i","c">>, keywords |-> <<<<"v","a","l","i","d","a","t","i","o","n">>, <<"d","a","t","a">>, <<"p","a","r","s","i","n","g">>>>,
     description |-> <<"D","a","t","a"," ","v","a","l","i","d","a","t","i","o","n"," ","a","n","d"," ","s","e","t","t","i","n","g","s"," ","m","a","n","a","g","e","m","e","n","t">>] >>

\* The whole part of calculateSearchScore(pkg, query); boost is the whole
\* part of the random addition.
calculateSearchScore(pkg, query, boost) ==
    (IF toLowerCase(pkg.name) = query THEN 100
     ELSE IF includes(toLowerCase(pkg.name), query) THEN 50 ELSE 0)
      + (IF includes(toLowerCase(pkg.description), query) THEN 20 ELSE 0)
      + 30 * Cardinality({i \in 1..Len(pkg.keywords) :
                              includes(toLowerCase(pkg.keywords[i]), query)})
      + boost

\* What Math.random() gives one mock result: its quality and popularity in
\* tenths and the whole part of the addition to its search score, at the low
\* and at the high end of their ranges.
MockDraws ==
    { [quality |-> 7, popularity |-> 6, boost |-> 0],
      [quality |-> 9, popularity |-> 8, boost |-> 9] }

Slice(list, limit) ==
    SubSeq(list, 1, IF limit < Len(list) THEN limit ELSE Len(list))

MatchingPackages(query) ==
    LET queryLower == toLowerCase(query)
        Matches(pkg) ==
            \/ includes(toLowerCase(pkg.name), queryLower)
            \/ includes(toLowerCase(pkg.description), queryLower)
            \/ \E i \in 1..Len(pkg.keywords) :
                   includes(toLowerCase(pkg.keywords[i]), queryLower)
    IN  SelectSeq(commonPackages, Matches)

\* getMockSearchResults(query, limit), draws[i] being the random numbers of
\* the i-th result.
getMockSearchResults(query, limit, draws) ==
    LET matching == Slice(MatchingPackages(query), limit)
    IN  [i \in 1..Len(matching) |->
            [name |-> matching[i].name,
             quality |-> draws[i].quality,
             popularity |-> draws[i].popularity,
             searchScore |-> calculateSearchScore(matching[i], toLowerCase(query),
                                                  draws[i].boost)]]

\* list.sort((a, b) => b.searchScore - a.searchScore): a stable sort.
RECURSIVE SortBySearchScore(_)
SortBySearchScore(list) ==
    IF list = <<>> THEN <<>>
    ELSE LET rest   == SortBySearchScore(Tail(list))
             ahead  == {i \in 1..Len(rest) : rest[i].searchScore > Head(list).searchScore}
             n      == Cardinality(ahead)
         IN  SubSeq(rest, 1, n) \o <<Head(list)>> \o SubSeq(rest, n + 1, Len(rest))

\* What the two branches of searchPackagesWorkaround do with the results of
\* their search.
FilteredResponse(results, query, limit, quality, popularity) ==
    LET Good(p)    == quality = Undefined \/ p.quality >= quality[1]
        Popular(p) == popularity = Undefined \/ p.popularity >= popularity[1]
        filtered   == Slice(SortBySearchScore(SelectSeq(SelectSeq(results, Good),
                                                        Popular)),
                            limit)
    IN  [query |-> query, total |-> Len(filtered), packages |-> filtered]

\* searchPackagesWorkaround: answer is what searchWithLibrariesIO gives, its
\* results or a failure, and draws are the random numbers of the fallback.
searchPackagesWorkaround(query, limit, quality, popularity, answer, draws) ==
    IF answer.ok
    THEN FilteredResponse(answer.results, query, limit, quality, popularity)
    ELSE FilteredResponse(getMockSearchResults(query, limit, draws),
                          query, limit, quality, popularity)

\* What searchWithLibrariesIO can give: a failure, no result, or two results
\* that are not in the order of their search scores.
LibrariesIOAnswers ==
    { [ok |-> FALSE],
      [ok |-> TRUE, results |-> <<>>],
      [ok |-> TRUE,
       results |-> << [name |-> <<"d","j","a","n","g","o","-","x">>, quality |-> 10, popularity |-> 7,
                       searchScore |-> 50],
                      [name |-> <<"d","j","a","n","g","o">>, quality |-> 8, popularity |-> 9,
                       searchScore |-> 100] >>] }

MaxSearching == 1
MaxSearchTicks == 1

SearchParams(query, limit, quality, popularity) ==
    [query |-> query, limit |-> limit, quality |-> quality,
     popularity |-> popularity]

\* The searches: the ones of the cache-key tests, queries that contain the
\* separator of the key, and searches that the validators refuse.
SearchRequests ==
    { SearchParams(<<"d","j","a","n","g","o">>, Undefined, Undefined, Undefined),
      SearchParams(<<"d","j","a","n","g","o">>, Some(10), Undefined, Some(10)),
      SearchParams(<<"d","j","a","n","g","o",":","1","0",":","p">>, Some(1), Undefined, Undefined),
      SearchParams(<<"d","j","a","n","g","o">>, Some(10), Some(10), Undefined),
      SearchParams(<<>>, Undefined, Undefined, Undefined),
      SearchParams(<<"<","s","c","r","i","p","t",">">>, Undefined, Undefined, Undefined),
      SearchParams(<<"d","j","a","n","g","o">>, Some(0), Undefined, Undefined),
      SearchParams(<<"d","j","a","n","g","o">>, Some(251), Undefined, Undefined),
      SearchParams(<<"d","j","a","n","g","o">>, Some(10), Some(11), Undefined),
      SearchParams(<<"d","j","a","n","g","o">>, Some(10), Undefined, Some(11)) }

\* const { query, limit = 20, quality, popularity } = params
LimitOf(params) == IF params.limit = Undefined THEN 20 ELSE params.limit[1]

\* The validations of searchPackages in their order: the first that throws.
SearchValidation(params) ==
    IF validateSearchQuery(params.query).threw THEN validateSearchQuery(params.query)
    ELSE IF validateLimit(LimitOf(params)).threw THEN validateLimit(LimitOf(params))
    ELSE IF params.quality # Undefined /\ validateScore(params.quality[1]).threw
    THEN validateScore(params.quality[1])
    ELSE IF params.popularity # Undefined /\ validateScore(params.popularity[1]).threw
    THEN validateScore(params.popularity[1])
    ELSE Accepted

SearchKey(params) ==
    createCacheKey_searchResults(params.query, LimitOf(params), params.quality,
                                 params.popularity)

SearchInit ==
    /\ maxSize = MemoryCache(Environment).maxSize
    /\ defaultTtl = MemoryCache(Environment).defaultTtl
    /\ store = EmptyMap
    /\ clock = 0
    /\ ret = <<>>
    /\ trail = [ticks |-> 0]
    /\ pypiLog = <<>>
    /\ ReadmeIdle /\ RetryIdle

\* searchPackages(params) up to its await: a validator throws, the cached
\* response is returned, or the search starts.
SearchPackages ==
    \E params \in SearchRequests : \E check \in {SearchValidation(params)} :
        /\ \/ /\ check.threw
              /\ ret' = [request |-> params, source |-> "validation",
                         settled |-> "rejected", response |-> check]
              /\ UNCHANGED <<store, pypiLog>>
           \/ /\ ~check.threw
              /\ \E cached \in {MemoryCache_get(store, SearchKey(params), clock)} :
                    /\ store' = cached.map
                    /\ \/ /\ cached.value # Null
                          /\ ret' = [request |-> params, source |-> "cache",
                                     settled |-> "resolved",
                                     response |-> cached.value[1]]
                          /\ pypiLog' = pypiLog
                       \/ /\ cached.value = Null
                          /\ Len(pypiLog) < MaxSearching
                          /\ pypiLog' = Append(pypiLog, [request |-> params])
                          /\ ret' = ret
        /\ UNCHANGED <<clock, maxSize, defaultTtl, trail>>
        /\ UNCHANGED <<readmeVars, retry>>

\* The search answers and searchPackages runs to its end: the response is
\* cached for five minutes and returned.
SearchResultsArrive ==
    \E i \in 1..Len(pypiLog) : \E answer \in LibrariesIOAnswers :
      \E draws \in [1..Len(MatchingPackages(pypiLog[i].request.query)) -> MockDraws] :
        LET params == pypiLog[i].request
        IN  \E searchResponse \in
                  {searchPackagesWorkaround(params.query, LimitOf(params),
                                            params.quality, params.popularity,
                                            answer, draws)} :
              /\ store' = MemoryCache_set(store, SearchKey(params), searchResponse,
                                          Some(300000), clock, maxSize, defaultTtl)
              /\ ret' = [request |-> params, source |-> "search",
                         settled |-> "resolved", response |-> searchResponse]
              /\ pypiLog' = RemoveAt(pypiLog, i)
              /\ UNCHANGED <<clock, maxSize, defaultTtl, trail>>
              /\ UNCHANGED <<readmeVars, retry>>

\* Time passes between two steps: a millisecond, or the five minutes of a
\* cached search response.
SearchTick ==
    \E step \in {1, 300000} :
        /\ trail.ticks < MaxSearchTicks
        /\ clock' = clock + step
        /\ trail' = [ticks |-> trail.ticks + 1]
        /\ UNCHANGED <<store, maxSize, defaultTtl, ret>>
        /\ UNCHANGED <<readmeVars, pypiLog, retry>>

SearchNext ==
    \/ SearchPackages
    \/ SearchResultsArrive
    \/ SearchTick

SpecSearch == SearchInit /\ [][SearchNext]_vars

\* C29: a search that resolves returns a response whose query field is the
\* query that was asked for, whether it comes from the search or from the
\* cache.
C29_SearchAnswersItsQuery ==
    (ret # <<>> /\ ret.settled = "resolved")
        => ret.response.query = ret.request.query

====
